---- MODULE Spec2Model ----
(***************************************************************************)
(* Model of node-apparatus' DistributedAutoIncrementingPrimaryKey (DAIPK): *)
(* allocator nodes that keep a forward map (redis hash), a saturating      *)
(* counter (redis BITFIELD) and a reclaim list (redis list) under one      *)
(* identity, optionally chained to an existing dictionary.  Every store    *)
(* round trip of insert / fetchUniqueIds is one atomic step, so concurrent *)
(* calls interleave between their round trips.                             *)
(***************************************************************************)
EXTENDS Integers, Sequences, FiniteSets, TLC

(* ------------------------------ bounds -------------------------------- *)
MaxNodes == 2      \* allocator nodes that get constructed
MaxBits == 2       \* widest counter: maxCapacity is u1 .. u<MaxBits>
MaxBatch == 2      \* longest primaryKeys array passed to a call
NumCallers == 2    \* concurrent callers (threads / processes)
MaxCalls == 2      \* calls made in one run of concurrent callers
SeqCalls == 3      \* calls made in one run of a single caller
CapKeys == 300     \* longest batch of the capacity scenario
NumThreads == 3    \* threads (or tasks of one thread) that share a lock or a queue
MaxArgs == 2       \* distinct arguments passed to invoke: 1 .. MaxArgs
MaxQueueLength == 2 \* maxQueueLength of the queue
MaxInvokes == 4     \* args added to the queue in one run of invoke alone
MaxWindow == 3      \* largest windowSize
MaxPushes == 5      \* elements passed to window() in one run
MaxFlushes == 2     \* flush() calls in one run
KeysBatch == 3      \* longest batch of the validation scenario
FailCalls == 2      \* calls made in one run with store failures
PairCalls == 2      \* calls made in one run on two unchained dictionaries
ShardCalls == 2     \* batches the sharding caller submits
MaxIterators == 3   \* iterators passed to kWayMerge
MaxLength == 2      \* elements of one iterator
MaxValue == 2       \* the numbers an iterator gives: 1..MaxValue
MaxPurges == 1      \* purge indexes a frame function returns for one frame
SharedPushes == 6   \* elements passed to window by concurrent callers

\* maxCapacity 'u8'
U8 == 8

Callers == 1..NumCallers
Threads == 1..NumThreads
Widths == 1..MaxBits

(* --------------------------- primary keys ----------------------------- *)
\* primaryKeyType = string | number | boolean; a key is its runtime type
\* with its text, the text of a number being its decimal form.
StringKey(s) == [type |-> "string", text |-> s]
NumberKey(n) == [type |-> "number", text |-> ToString(n)]

PrimaryKeys == {StringKey("A"), StringKey("1"), NumberKey(1), StringKey("")}

\* what a caller can pass besides: null, undefined and NaN
NullKey == [type |-> "object", text |-> "null"]
UndefinedKey == [type |-> "undefined", text |-> "undefined"]
NaNKey == [type |-> "number", text |-> "NaN"]
AnyKeys == PrimaryKeys \cup {NullKey, UndefinedKey, NaNKey}

\* fieldName.toString(): the hash field a key is stored under
toString(k) == k.text

Range(s) == {s[i] : i \in DOMAIN s}

Batches == UNION {[1..n -> PrimaryKeys] : n \in 0..MaxBatch}

\* the validation without its isNaN test
IsValidKey_AllowNaN(v) ==
    \/ (v.type = "string" /\ v.text # "")
    \/ v.type = "number"
    \/ v.type = "boolean"

\* insert's validation loop at the base dictionary
IsValidKey(v) ==
    \/ (v.type = "string" /\ v.text # "")
    \/ (v.type = "number" /\ v.text # "NaN")
    \/ v.type = "boolean"

\* A loop over the places lo .. hi of an array is modelled by an operator that
\* runs the loop's body at one place and otherwise halves the range, which keeps
\* the evaluation shallow for long arrays; comparing the left half's result
\* makes TLC compute it before the right half starts.
RECURSIVE InsertFilterLoop(_, _, _, _)
InsertFilterLoop(primaryKeys, filteredValues, lo, hi) ==
    IF lo > hi THEN filteredValues
    ELSE IF lo = hi THEN
        LET v == primaryKeys[lo]
        IN IF IsValidKey(v) /\ v \notin Range(filteredValues)
           THEN Append(filteredValues, v)
           ELSE filteredValues
    ELSE LET mid == (lo + hi) \div 2
             left == InsertFilterLoop(primaryKeys, filteredValues, lo, mid)
         IN IF left = left THEN InsertFilterLoop(primaryKeys, left, mid + 1, hi) ELSE left

InsertFilter(primaryKeys) == InsertFilterLoop(primaryKeys, <<>>, 1, Len(primaryKeys))

\* fetchUniqueIds' validation loop at the base dictionary; && binds tighter
\* than ||, so only a boolean key is checked against localDuplicates
RECURSIVE FetchFilterLoop(_, _, _, _)
FetchFilterLoop(primaryKeys, filteredValues, lo, hi) ==
    IF lo > hi THEN filteredValues
    ELSE IF lo = hi THEN
        LET primaryKey == primaryKeys[lo]
        IN IF \/ (primaryKey.type = "string" /\ primaryKey.text # "")
              \/ (primaryKey.type = "number" /\ primaryKey.text # "NaN")
              \/ (primaryKey.type = "boolean" /\ primaryKey \notin Range(filteredValues))
           THEN Append(filteredValues, primaryKey)
           ELSE filteredValues
    ELSE LET mid == (lo + hi) \div 2
             left == FetchFilterLoop(primaryKeys, filteredValues, lo, mid)
         IN IF left = left THEN FetchFilterLoop(primaryKeys, left, mid + 1, hi) ELSE left

FetchFilter(primaryKeys) == FetchFilterLoop(primaryKeys, <<>>, 1, Len(primaryKeys))

(* ---------------------------- store commands -------------------------- *)
\* largest value of an unsigned counter of the given width
MaxCounter(bits) == 2^bits - 1

Min(a, b) == IF a < b THEN a ELSE b

\* an LPOP that finds nothing to pop
LPOP_Nothing(list, count) == [popped |-> <<>>, list |-> list]

\* LPOP key count
LPOP(list, count) ==
    [popped |-> SubSeq(list, 1, Min(count, Len(list))),
     list   |-> SubSeq(list, Min(count, Len(list)) + 1, Len(list))]

\* BITFIELD that saturates one past the largest value of the width
BITFIELD_OnePast(ctr, bits, incr) ==
    <<ctr, IF incr > 2^bits - ctr THEN 2^bits ELSE ctr + incr>>

\* BITFIELD without OVERFLOW SAT: redis wraps around
BITFIELD_Wrap(ctr, bits, incr) == <<ctr, (ctr + incr) % (2^bits)>>

\* BITFIELD on a counter wider than the configured width
BITFIELD_Wider(ctr, bits, incr) == <<ctr, ctr + incr>>

\* BITFIELD with OVERFLOW FAIL: an increment that does not fit is not applied
BITFIELD_Fail(ctr, bits, incr) ==
    <<ctr, IF incr > MaxCounter(bits) - ctr THEN ctr ELSE ctr + incr>>

\* BITFIELD key GET u<bits> 0 OVERFLOW SAT INCRBY u<bits> 0 incr
BITFIELD(ctr, bits, incr) ==
    <<ctr, IF incr > MaxCounter(bits) - ctr THEN MaxCounter(bits) ELSE ctr + incr>>

\* HSET key field value: sets the field, replies 1 when the field is new
HSET(hash, field, value) ==
    [hash  |-> [f \in DOMAIN hash \cup {field} |-> IF f = field THEN value ELSE hash[f]],
     reply |-> IF field \in DOMAIN hash THEN 0 ELSE 1]

\* pipeline of HSET commands, each <<field, value>>, run in order
RECURSIVE PipelineRun(_, _, _, _)
PipelineRun(commands, before, lo, hi) ==
    IF lo > hi THEN before
    ELSE IF lo = hi THEN
        LET r == HSET(before.hash, commands[lo][1], commands[lo][2])
        IN [hash |-> r.hash, replies |-> Append(before.replies, r.reply)]
    ELSE LET mid == (lo + hi) \div 2
             left == PipelineRun(commands, before, lo, mid)
         IN IF left = left THEN PipelineRun(commands, left, mid + 1, hi) ELSE left

Pipeline(hash, commands) ==
    PipelineRun(commands, [hash |-> hash, replies |-> <<>>], 1, Len(commands))

Reverse(s) == [i \in 1..Len(s) |-> s[Len(s) + 1 - i]]

\* RPUSH key v1 v2 ...: the values are put at the tail
LPUSH_Tail(list, values) == list \o values

\* LPUSH key v1 v2 ...: each value is pushed on the head in turn
LPUSH(list, values) == Reverse(values) \o list

\* HMGET key f1 f2 ...: the value of each field, or null
NoId == <<>>
HMGET(hash, fields) ==
    [i \in 1..Len(fields) |-> IF fields[i] \in DOMAIN hash THEN hash[fields[i]] ELSE NoId]

(* ------------------------------ key names ----------------------------- *)
\* separatorCharacter: string = '-'
separatorCharacter == "-"

\* the identity of the n-th dictionary constructed: `${myIdentity}_${shardCount}`
\* with myIdentity = "ME"; every dictionary has an identity of its own
identity(n) == "ME_" \o ToString(n - 1)

\* `rhdict${separatorCharacter}${suffix}${this.separatorCharacter}${identity}`
\* a naming function that leaves the identity out
constructRedisKey_NoIdentity(suffix, separator, id) ==
    "rhdict" \o separator \o suffix

constructRedisKey(suffix, separator, id) ==
    "rhdict" \o separator \o suffix \o separatorCharacter \o id

\* redisKeyBuilder, by default this.constructRedisKey
redisKeyBuilder(suffix, separator, id) == constructRedisKey(suffix, separator, id)

\* the store keys of the n-th dictionary
redisHashKey(n) == redisKeyBuilder("map", separatorCharacter, identity(n))
redisCounterKey(n) == redisKeyBuilder("ctr", separatorCharacter, identity(n))
redisRefurbishedListKey(n) == redisKeyBuilder("refurbished", separatorCharacter, identity(n))

(* ------------------------------- state -------------------------------- *)
VARIABLES
    nodes,                    \* number of DAIPK instances constructed: 1..nodes
    existingDictionary,       \* node -> its predecessor, 0 when undefined
    maxCapacity,              \* node -> counter width in bits, 0 before construction
    redisHash,                \* hash key -> forward map, field -> unique id
    redisCounter,             \* counter key -> counter value
    redisRefurbishedList,     \* list key -> reclaim list
    pc,                       \* caller -> position in its call
    target,                   \* caller -> node the call was made on
    cur,                      \* caller -> node whose code is running
    primaryKeys,              \* caller -> the array passed to the call
    inserted,                 \* caller -> insert response: field -> unique id
    overflow,                 \* caller -> insert response: keys not bound
    found,                    \* caller -> fetch response: key -> unique id
    notFound,                 \* caller -> fetch response: keys not found
    uniqueIds,                \* caller -> integers reserved and not written
    insertCommands,           \* caller -> HSET commands of its last pipeline
    token,                    \* caller -> token of the session its call runs in
    error,                    \* caller -> the store command that rejected, if any
    acquired,                 \* the pool: tokens acquired and not released
    calls,                    \* number of calls made so far
    \* observers: they record the past and never steer an operation
    race,                     \* <<c, d, field, node>>: d started an insert of a new
                              \* key that c's running insert also holds
    pre,                      \* the store as it was when the running call started
    prevFetch,                \* the fetch that ended right before the running fetch
    returned,                 \* <<field, id>> pairs that insert calls have returned
    submitted,                \* primary keys passed to insert so far
    disjoint,                 \* TRUE while no key was passed to two insert calls
    acquireLog,               \* tokens whose acquire has resolved
    releaseLog,               \* token -> number of release calls made with it
    rejected,                 \* the store commands that rejected in the caller's current call
    \* SpinWaitLock and SequentialInvocationQueue
    lock,                     \* the Int32Array over the shared buffer, at LOCK_INDEX
    spin,                     \* thread -> where its acquire() is, or what it returned
    holders,                  \* observer: Acquired returns since the last release
    invocationQueue,          \* the queue's array of arguments
    invocation,               \* thread -> where its invoke() is
    args,                     \* thread -> the args passed to its invoke()
    invocationParams,         \* thread -> the args its invocationFunction runs on
    state,                    \* thread -> state of the InvocationResult returned
    added,                    \* observer: the args written to the queue, in order
    executed,                 \* observer: the args invocationFunction was started with, in order
    \* DistributedWindow over an accumulator
    windowSize,               \* the windowSize the DistributedWindow was constructed with
    elements,                 \* the accumulator's array
    frames,                   \* thread -> the window() calls it is in, outermost first
    windows,                  \* thread -> what its last window() or flush() returned
    pushed,                   \* observer: the elements passed to window(), in call order
    collected,                \* observer: the windows returned so far, in call order
    flushes,                  \* observer: the results of the flush() calls, in call order
    \* kWayMerge
    iterators,                \* the arrays the input iterators run over
    cursors,                  \* iterator -> number of its elements already taken by next()
    compareFrame,             \* the current element of every iterator
    doneCounter,              \* the number of iterators not yet seen done
    endReachedIndexes,        \* the indexes of the iterators seen done
    frameResult,              \* the result frameProcessFunction returned for the last frame
    yielded,                  \* the elements the generator has yielded, in order
    merge                     \* where the generator is: created, running, done or thrown

lockVars == <<lock, spin, holders>>
queueVars == <<invocationQueue, invocation, args, invocationParams, state>>
queueObservers == <<added, executed>>
syncVars == <<lockVars, queueVars, queueObservers>>
windowVars == <<windowSize, elements, frames, windows>>
windowObservers == <<pushed, collected, flushes>>
mergeVars == <<iterators, cursors, compareFrame, doneCounter, endReachedIndexes, frameResult, yielded, merge>>
utilVars == <<syncVars, windowVars, windowObservers, mergeVars>>
storeVars == <<redisHash, redisCounter, redisRefurbishedList>>
nodeVars == <<nodes, existingDictionary, maxCapacity>>
callVars == <<pc, target, cur, primaryKeys, inserted, overflow, found, notFound,
              uniqueIds, insertCommands, token, error, acquired>>
seqObservers == <<pre, prevFetch, returned, submitted, disjoint>>
poolObservers == <<acquireLog, releaseLog, rejected>>
daipkVars == <<nodeVars, storeVars, callVars, calls, race, seqObservers, poolObservers>>
otherVars == <<daipkVars, windowVars, windowObservers, mergeVars>>
vars == <<daipkVars, utilVars>>

AtRest == {"idle", "insertDone", "fetchDone", "insertFailed", "fetchFailed"}
NoArgs == 0     \* no arguments passed or shifted yet
NoIndex == -1   \* index: number | undefined = undefined
NoToken == <<>>
NoError == "none"

\* redisConnection.generateUniqueToken(this.identity): a token no other call of
\* any dictionary gets; serial is the number of the call it is generated in
generateUniqueToken(prefix, serial) == <<prefix, serial>>
Nodes == 1..nodes
EmptyMap == [f \in {} |-> NoId]
NoFetch == [target |-> 0, primaryKeys |-> <<>>, found |-> EmptyMap, notFound |-> <<>>]
Store == [hash |-> redisHash, counter |-> redisCounter, list |-> redisRefurbishedList]

\* `${this.identity}${this.separatorCharacter}${id}`
UniqueId(n, id) == <<n, id>>

\* a call that runs its own dictionary before the one it is chained onto
RECURSIVE Chain_HeadFirst(_)
Chain_HeadFirst(n) == IF existingDictionary[n] = 0 THEN <<n>>
                      ELSE <<n>> \o Chain_HeadFirst(existingDictionary[n])

\* the dictionaries a call on node n runs through, base dictionary first
RECURSIVE Chain(_)
Chain(n) == IF existingDictionary[n] = 0 THEN <<n>>
            ELSE Append(Chain(existingDictionary[n]), n)

\* the node whose code runs after n returns in a call made on t (0: none)
Successor(t, n) ==
    LET ch == Chain(t)
        i  == CHOOSE j \in DOMAIN ch : ch[j] = n
    IN IF i = Len(ch) THEN 0 ELSE ch[i + 1]

\* Set.add on a Set kept in insertion order
SetAdd(set, x) == IF x \in Range(set) THEN set ELSE Append(set, x)

\* new Set(array)
RECURSIVE SetOfLoop(_, _, _, _)
SetOfLoop(array, set, lo, hi) ==
    IF lo > hi THEN set
    ELSE IF lo = hi THEN
        SetAdd(set, array[lo])
    ELSE LET mid == (lo + hi) \div 2
             left == SetOfLoop(array, set, lo, mid)
         IN IF left = left THEN SetOfLoop(array, left, mid + 1, hi) ELSE left

SetOf(array) == SetOfLoop(array, <<>>, 1, Len(array))

\* Map.set
MapSet(map, k, v) == [x \in DOMAIN map \cup {k} |-> IF x = k THEN v ELSE map[x]]

InitCalls ==
    /\ pc = [c \in Callers |-> "idle"]
    /\ target = [c \in Callers |-> 0]
    /\ cur = [c \in Callers |-> 0]
    /\ primaryKeys = [c \in Callers |-> <<>>]
    /\ inserted = [c \in Callers |-> EmptyMap]
    /\ overflow = [c \in Callers |-> <<>>]
    /\ found = [c \in Callers |-> EmptyMap]
    /\ notFound = [c \in Callers |-> <<>>]
    /\ uniqueIds = [c \in Callers |-> <<>>]
    /\ insertCommands = [c \in Callers |-> <<>>]
    /\ token = [c \in Callers |-> NoToken]
    /\ error = [c \in Callers |-> NoError]
    /\ acquired = {}
    /\ calls = 0

InitStore ==
    /\ redisHash = [k \in {redisHashKey(n) : n \in 1..MaxNodes} |-> EmptyMap]
    /\ redisCounter = [k \in {redisCounterKey(n) : n \in 1..MaxNodes} |-> 0]
    /\ redisRefurbishedList = [k \in {redisRefurbishedListKey(n) : n \in 1..MaxNodes} |-> <<>>]

InitObservers ==
    /\ race = {}
    /\ pre = Store
    /\ prevFetch = NoFetch
    /\ returned = {}
    /\ submitted = {}
    /\ disjoint = TRUE
    /\ acquireLog = {}
    /\ releaseLog = EmptyMap
    /\ rejected = {}

\* new SpinWaitLock(): a new SharedArrayBuffer(4) holds 0; no thread has called it
InitLock ==
    /\ lock = 0
    /\ spin = [t \in Threads |-> "idle"]
    /\ holders = 0

\* new SequentialInvocationQueue(lock, invocationFunction, maxQueueLength)
InitQueue ==
    /\ invocationQueue = <<>>
    /\ invocation = [t \in Threads |-> "idle"]
    /\ args = [t \in Threads |-> NoArgs]
    /\ invocationParams = [t \in Threads |-> NoArgs]
    /\ state = [t \in Threads |-> "none"]
    /\ added = <<>>
    /\ executed = <<>>

\* the value window() resolves with: undefined, or an array of windows
undefined == [defined |-> FALSE, windows |-> <<>>]
Windows(result) == [defined |-> TRUE, windows |-> result]

\* new DistributedWindow(size, accumulator) over an accumulator that holds nothing
InitWindow(size) ==
    /\ windowSize = size
    /\ elements = <<>>
    /\ frames = [t \in Threads |-> <<>>]
    /\ windows = [t \in Threads |-> undefined]
    /\ pushed = <<>>
    /\ collected = <<>>
    /\ flushes = <<>>

\* one dictionary has been constructed, over a store that holds nothing yet
\* kWayMerge: what an iterator can give, and what a frame function can point at
Number(v) == [type |-> "number", value |-> v]
null == [type |-> "null", value |-> 0]
NaN == [type |-> "NaN", value |-> 0]
undefinedValue == [type |-> "undefined", value |-> 0]
NoResult == [yieldIndex |-> null, purgeIndexes |-> <<>>]   \* no frame processed yet

\* a generator object that was created over the iterators and not yet started
InitMerge(its) ==
    /\ iterators = its
    /\ cursors = [i \in DOMAIN its |-> 0]
    /\ compareFrame = <<>>
    /\ doneCounter = 0
    /\ endReachedIndexes = {}
    /\ frameResult = NoResult
    /\ yielded = <<>>
    /\ merge = "created"

Init ==
    /\ nodes = 1
    /\ existingDictionary = [n \in 1..MaxNodes |-> 0]
    /\ maxCapacity \in {[n \in 1..MaxNodes |-> IF n = 1 THEN w ELSE 0] : w \in Widths}
    /\ InitStore
    /\ InitCalls
    /\ InitObservers
    /\ InitLock
    /\ InitQueue
    /\ InitWindow(MaxWindow)
    /\ InitMerge(<<>>)

(* ----------------------------- construction --------------------------- *)
\* new DistributedAutoIncrementingPrimaryKey(pool, identity, existing, .., maxCapacity)
Construct(existing, width) ==
    /\ nodes < MaxNodes
    /\ nodes' = nodes + 1
    /\ existingDictionary' = [existingDictionary EXCEPT ![nodes + 1] = existing]
    /\ maxCapacity' = [maxCapacity EXCEPT ![nodes + 1] = width]
    /\ UNCHANGED <<storeVars, callVars, calls>>

(* -------------------------------- insert ------------------------------ *)
\* insert(primaryKeys) on node t: the recursion reaches the base dictionary,
\* which validates; a dictionary with nothing left returns at once
InsertCall(c, t, keys) ==
    /\ pc[c] \in AtRest
    /\ t \in Nodes
    /\ calls' = calls + 1
    /\ LET filteredValues == InsertFilter(keys)
       IN /\ overflow' = [overflow EXCEPT ![c] = filteredValues]
          /\ pc' = [pc EXCEPT ![c] = IF filteredValues = <<>> THEN "insertDone" ELSE "acquire"]
          /\ token' = [token EXCEPT ![c] =
                          IF filteredValues = <<>> THEN NoToken
                          ELSE generateUniqueToken(identity(Chain(t)[1]), calls + 1)]
    /\ error' = [error EXCEPT ![c] = NoError]
    /\ target' = [target EXCEPT ![c] = t]
    /\ cur' = [cur EXCEPT ![c] = Chain(t)[1]]
    /\ primaryKeys' = [primaryKeys EXCEPT ![c] = keys]
    /\ inserted' = [inserted EXCEPT ![c] = EmptyMap]
    /\ found' = [found EXCEPT ![c] = EmptyMap]
    /\ notFound' = [notFound EXCEPT ![c] = <<>>]
    /\ insertCommands' = [insertCommands EXCEPT ![c] = <<>>]
    /\ UNCHANGED <<nodeVars, storeVars, uniqueIds, acquired>>

\* await this.redisConnection.acquire(token)
InsertAcquire(c) ==
    /\ pc[c] = "acquire"
    /\ acquired' = acquired \cup {token[c]}
    /\ pc' = [pc EXCEPT ![c] = "lpop"]
    /\ UNCHANGED <<nodeVars, storeVars, target, cur, primaryKeys, inserted, overflow,
                   found, notFound, uniqueIds, insertCommands, token, error, calls>>

\* LPOP refurbished uniqueIdsRequired
InsertLPOP(c) ==
    /\ pc[c] = "lpop"
    /\ LET n == cur[c]
           r == LPOP(redisRefurbishedList[redisRefurbishedListKey(n)], Len(overflow[c]))
       IN /\ uniqueIds' = [uniqueIds EXCEPT ![c] = SetOf(r.popped)]
          /\ redisRefurbishedList' = [redisRefurbishedList EXCEPT ![redisRefurbishedListKey(n)] = r.list]
    /\ pc' = [pc EXCEPT ![c] = "bitfield"]
    /\ UNCHANGED <<nodeVars, redisHash, redisCounter, target, cur, primaryKeys,
                   inserted, overflow, found, notFound, insertCommands, token, error,
                   acquired, calls>>

\* for (i = startInclusiveId; i < endExclusiveId; i++) uniqueIds.add(i)
RECURSIVE AddRangeLoop(_, _, _)
AddRangeLoop(set, lo, hi) ==
    IF lo > hi THEN set
    ELSE IF lo = hi THEN
        SetAdd(set, lo)
    ELSE LET mid == (lo + hi) \div 2
             left == AddRangeLoop(set, lo, mid)
         IN IF left = left THEN AddRangeLoop(left, mid + 1, hi) ELSE left

\* the loop with i <= endExclusiveId
AddRange_Inclusive(set, startInclusiveId, endExclusiveId) ==
    AddRangeLoop(set, startInclusiveId, endExclusiveId)

AddRange(set, startInclusiveId, endExclusiveId) ==
    AddRangeLoop(set, startInclusiveId, endExclusiveId - 1)

\* BITFIELD ctr GET .. OVERFLOW SAT INCRBY .. uniqueIdsRequired
InsertBITFIELD(c) ==
    /\ pc[c] = "bitfield"
    /\ LET n == cur[c]
           uniqueIdsRequired == Len(overflow[c]) - Len(uniqueIds[c])
           freshIdRange == BITFIELD(redisCounter[redisCounterKey(n)], maxCapacity[n], uniqueIdsRequired)
       IN /\ redisCounter' = [redisCounter EXCEPT ![redisCounterKey(n)] = freshIdRange[2]]
          /\ uniqueIds' = [uniqueIds EXCEPT ![c] =
                              AddRange(uniqueIds[c], freshIdRange[1], freshIdRange[2])]
    /\ pc' = [pc EXCEPT ![c] = "pipeline"]
    /\ UNCHANGED <<nodeVars, redisHash, redisRefurbishedList, target, cur, primaryKeys,
                   inserted, overflow, found, notFound, insertCommands, token, error,
                   acquired, calls>>

\* the HSET commands built from uniqueIdsArray and the keys shifted off overflow
InsertCommands(n, uniqueIdsArray, keys) ==
    [i \in 1..Min(Len(uniqueIdsArray), Len(keys)) |->
        <<toString(keys[i]), UniqueId(n, uniqueIdsArray[i])>>]

\* the loop over insertResults: reply 0 reclaims the id, reply 1 records the pair
RECURSIVE InsertResultsLoop(_, _, _, _, _, _)
InsertResultsLoop(commands, replies, uniqueIdsArray, before, lo, hi) ==
    IF lo > hi THEN before
    ELSE IF lo = hi THEN
        IF replies[lo] = 0
        THEN [uniqueIds |-> SetAdd(before.uniqueIds, uniqueIdsArray[lo]),
              inserted  |-> before.inserted]
        ELSE [uniqueIds |-> before.uniqueIds,
              inserted  |-> MapSet(before.inserted, commands[lo][1], commands[lo][2])]
    ELSE LET mid == (lo + hi) \div 2
             left == InsertResultsLoop(commands, replies, uniqueIdsArray, before, lo, mid)
         IN IF left = left THEN InsertResultsLoop(commands, replies, uniqueIdsArray, left, mid + 1, hi) ELSE left

InsertResults(commands, replies, uniqueIdsArray, unpaired, insertedMap) ==
    InsertResultsLoop(commands, replies, uniqueIdsArray,
                      [uniqueIds |-> unpaired, inserted |-> insertedMap], 1, Len(replies))

\* a call that enters the dictionary chained onto it with nothing left over
NextPc_NoShortCircuit(c, rest, again, done) ==
    IF Successor(target[c], cur[c]) = 0
    THEN [pc EXCEPT ![c] = done]
    ELSE [pc EXCEPT ![c] = again]

\* where a call goes when node cur[c] has finished with `rest` left over: on to
\* the dictionary chained onto it, or back to the caller
NextPc(c, rest, again, done) ==
    IF Successor(target[c], cur[c]) = 0 \/ rest = <<>>
    THEN [pc EXCEPT ![c] = done]
    ELSE [pc EXCEPT ![c] = again]

\* a call that runs the same dictionary again instead of the one chained onto it
NextCur_Stay(c, rest) == cur

NextCur(c, rest) ==
    IF Successor(target[c], cur[c]) = 0 \/ rest = <<>> THEN cur
    ELSE [cur EXCEPT ![c] = Successor(target[c], cur[c])]

\* pipeline(token, insertCommands) and the loop over its results
InsertPipeline(c) ==
    /\ pc[c] = "pipeline"
    /\ LET n == cur[c]
           uniqueIdsArray == uniqueIds[c]
           commands == InsertCommands(n, uniqueIdsArray, overflow[c])
           paired == Len(commands)
           rest == SubSeq(overflow[c], paired + 1, Len(overflow[c]))
           unpaired == SubSeq(uniqueIdsArray, paired + 1, Len(uniqueIdsArray))
           p == Pipeline(redisHash[redisHashKey(n)], commands)
           r == InsertResults(commands, p.replies, uniqueIdsArray, unpaired, inserted[c])
       IN /\ redisHash' = [redisHash EXCEPT ![redisHashKey(n)] = p.hash]
          /\ insertCommands' = [insertCommands EXCEPT ![c] = commands]
          /\ overflow' = [overflow EXCEPT ![c] = rest]
          /\ inserted' = [inserted EXCEPT ![c] = r.inserted]
          /\ uniqueIds' = [uniqueIds EXCEPT ![c] = r.uniqueIds]
          /\ pc' = [pc EXCEPT ![c] = IF r.uniqueIds # <<>> THEN "lpush" ELSE "release"]
    /\ UNCHANGED <<nodeVars, redisCounter, redisRefurbishedList, target, cur, primaryKeys,
                   found, notFound, token, error, acquired, calls>>

\* LPUSH refurbished ...uniqueIds.values()
InsertLPUSH(c) ==
    /\ pc[c] = "lpush"
    /\ LET n == cur[c]
       IN redisRefurbishedList' =
              [redisRefurbishedList EXCEPT ![redisRefurbishedListKey(n)] = LPUSH(redisRefurbishedList[redisRefurbishedListKey(n)], uniqueIds[c])]
    /\ uniqueIds' = [uniqueIds EXCEPT ![c] = <<>>]
    /\ pc' = [pc EXCEPT ![c] = "release"]
    /\ UNCHANGED <<nodeVars, redisHash, redisCounter, target, cur, primaryKeys,
                   inserted, overflow, found, notFound, insertCommands, token, error,
                   acquired, calls>>

\* the token of the session that the dictionary chained onto cur[c] opens when
\* cur[c] hands it `rest`; none when the call is over
NextToken(c, rest) ==
    IF Successor(target[c], cur[c]) = 0 \/ rest = <<>>
    THEN [token EXCEPT ![c] = NoToken]
    ELSE [token EXCEPT ![c] =
             generateUniqueToken(identity(Successor(target[c], cur[c])), token[c][2])]

\* a finally block that returns the response, which discards the exception
InsertRelease_Swallow(c) ==
    /\ pc[c] = "release"
    /\ acquired' = acquired \ {token[c]}
    /\ uniqueIds' = [uniqueIds EXCEPT ![c] = <<>>]
    /\ pc' = NextPc(c, overflow[c], "acquire", "insertDone")
    /\ cur' = NextCur(c, overflow[c])
    /\ token' = NextToken(c, overflow[c])
    /\ UNCHANGED <<nodeVars, storeVars, target, primaryKeys, inserted, overflow,
                   found, notFound, insertCommands, error, calls>>

\* finally { await this.redisConnection.release(token) }: the call is rejected
\* when a command of the try block rejected; otherwise the response goes to the
\* dictionary chained onto this one, or to the caller
InsertRelease(c) ==
    /\ pc[c] = "release"
    /\ acquired' = acquired \ {token[c]}
    /\ uniqueIds' = [uniqueIds EXCEPT ![c] = <<>>]
    /\ IF error[c] # NoError
       THEN /\ pc' = [pc EXCEPT ![c] = "insertFailed"]
            /\ cur' = cur
            /\ token' = [token EXCEPT ![c] = NoToken]
       ELSE /\ pc' = NextPc(c, overflow[c], "acquire", "insertDone")
            /\ cur' = NextCur(c, overflow[c])
            /\ token' = NextToken(c, overflow[c])
    /\ UNCHANGED <<nodeVars, storeVars, target, primaryKeys, inserted, overflow,
                   found, notFound, insertCommands, error, calls>>

(* ---------------------------- fetchUniqueIds -------------------------- *)
FetchCall(c, t, keys) ==
    /\ pc[c] \in AtRest
    /\ t \in Nodes
    /\ calls' = calls + 1
    /\ LET filteredValues == FetchFilter(keys)
       IN /\ notFound' = [notFound EXCEPT ![c] = filteredValues]
          /\ pc' = [pc EXCEPT ![c] = IF filteredValues = <<>> THEN "fetchDone" ELSE "fetchAcquire"]
          /\ token' = [token EXCEPT ![c] =
                          IF filteredValues = <<>> THEN NoToken
                          ELSE generateUniqueToken(identity(Chain(t)[1]), calls + 1)]
    /\ error' = [error EXCEPT ![c] = NoError]
    /\ target' = [target EXCEPT ![c] = t]
    /\ cur' = [cur EXCEPT ![c] = Chain(t)[1]]
    /\ primaryKeys' = [primaryKeys EXCEPT ![c] = keys]
    /\ found' = [found EXCEPT ![c] = EmptyMap]
    /\ inserted' = [inserted EXCEPT ![c] = EmptyMap]
    /\ overflow' = [overflow EXCEPT ![c] = <<>>]
    /\ insertCommands' = [insertCommands EXCEPT ![c] = <<>>]
    /\ UNCHANGED <<nodeVars, storeVars, uniqueIds, acquired>>

\* await this.redisConnection.acquire(token)
FetchAcquire(c) ==
    /\ pc[c] = "fetchAcquire"
    /\ acquired' = acquired \cup {token[c]}
    /\ pc' = [pc EXCEPT ![c] = "hmget"]
    /\ UNCHANGED <<nodeVars, storeVars, target, cur, primaryKeys, inserted, overflow,
                   found, notFound, uniqueIds, insertCommands, token, error, calls>>

\* the loop over fetchResults
RECURSIVE FetchResultsLoop(_, _, _, _, _)
FetchResultsLoop(keys, fetchResults, before, lo, hi) ==
    IF lo > hi THEN before
    ELSE IF lo = hi THEN
        IF fetchResults[lo] # NoId
        THEN [found |-> MapSet(before.found, keys[lo], fetchResults[lo]),
              notFound |-> before.notFound]
        ELSE [found |-> before.found,
              notFound |-> Append(before.notFound, keys[lo])]
    ELSE LET mid == (lo + hi) \div 2
             left == FetchResultsLoop(keys, fetchResults, before, lo, mid)
         IN IF left = left THEN FetchResultsLoop(keys, fetchResults, left, mid + 1, hi) ELSE left

\* the loop without its else: every key is pushed to newNotFoundPrimaryKeys
FetchResults_NoElse(keys, fetchResults, foundMap) ==
    LET r == FetchResultsLoop(keys, fetchResults, [found |-> foundMap, notFound |-> <<>>],
                              1, Len(fetchResults))
    IN [found |-> r.found, notFound |-> keys]

FetchResults(keys, fetchResults, foundMap) ==
    FetchResultsLoop(keys, fetchResults, [found |-> foundMap, notFound |-> <<>>],
                     1, Len(fetchResults))

\* a fetch that reads with a consuming command: the fields read are deleted
FetchHMGET_Consume(c) ==
    /\ pc[c] = "hmget"
    /\ LET n == cur[c]
           fields == [i \in 1..Len(notFound[c]) |-> toString(notFound[c][i])]
           fetchResults == HMGET(redisHash[redisHashKey(n)], fields)
           r == FetchResults(notFound[c], fetchResults, found[c])
       IN /\ found' = [found EXCEPT ![c] = r.found]
          /\ notFound' = [notFound EXCEPT ![c] = r.notFound]
          /\ redisHash' = [redisHash EXCEPT ![redisHashKey(n)] =
                              [f \in DOMAIN redisHash[redisHashKey(n)] \ Range(fields) |-> redisHash[redisHashKey(n)][f]]]
          /\ pc' = [pc EXCEPT ![c] = "fetchRelease"]
    /\ UNCHANGED <<nodeVars, redisCounter, redisRefurbishedList, target, cur, primaryKeys,
                   inserted, overflow, uniqueIds, insertCommands, token, error,
                   acquired, calls>>

\* HMGET map ...notFound
FetchHMGET(c) ==
    /\ pc[c] = "hmget"
    /\ LET n == cur[c]
           fields == [i \in 1..Len(notFound[c]) |-> toString(notFound[c][i])]
           fetchResults == HMGET(redisHash[redisHashKey(n)], fields)
           r == FetchResults(notFound[c], fetchResults, found[c])
       IN /\ found' = [found EXCEPT ![c] = r.found]
          /\ notFound' = [notFound EXCEPT ![c] = r.notFound]
          /\ pc' = [pc EXCEPT ![c] = "fetchRelease"]
    /\ UNCHANGED <<nodeVars, storeVars, target, cur, primaryKeys, inserted, overflow,
                   uniqueIds, insertCommands, token, error, acquired, calls>>

\* finally { await this.redisConnection.release(token) }
FetchRelease(c) ==
    /\ pc[c] = "fetchRelease"
    /\ acquired' = acquired \ {token[c]}
    /\ IF error[c] # NoError
       THEN /\ pc' = [pc EXCEPT ![c] = "fetchFailed"]
            /\ cur' = cur
            /\ token' = [token EXCEPT ![c] = NoToken]
       ELSE /\ pc' = NextPc(c, notFound[c], "fetchAcquire", "fetchDone")
            /\ cur' = NextCur(c, notFound[c])
            /\ token' = NextToken(c, notFound[c])
    /\ UNCHANGED <<nodeVars, storeVars, target, primaryKeys, inserted, overflow,
                   found, notFound, uniqueIds, insertCommands, error, calls>>

(* ------------------- concurrent callers: specification Spec ----------- *)
FieldsOf(keys) == {toString(keys[i]) : i \in DOMAIN keys}

\* caller c starts insert(keys) on the unchained node t while caller d, running
\* an insert on t, has not written yet, and both hold a key that t does not bind
RaceOnInsert(c, t, keys) ==
    race' = {r \in race : r[1] # c /\ r[2] # c} \cup
            {r \in (Callers \ {c}) \X {c} \X FieldsOf(InsertFilter(keys)) \X {t} :
                /\ pc[r[1]] \in {"acquire", "lpop", "bitfield", "pipeline"}
                /\ target[r[1]] = t
                /\ existingDictionary[t] = 0
                /\ r[3] \in FieldsOf(overflow[r[1]])
                /\ r[3] \notin DOMAIN redisHash[redisHashKey(t)]}

RaceForget(c) == race' = {r \in race : r[1] # c /\ r[2] # c}

Next ==
    \/ Construct(nodes, maxCapacity[nodes]) /\ UNCHANGED <<race, seqObservers, poolObservers, utilVars>>
    \/ \E c \in Callers, t \in 1..MaxNodes, keys \in Batches :
          calls < MaxCalls /\ InsertCall(c, t, keys) /\ RaceOnInsert(c, t, keys)
                           /\ UNCHANGED <<seqObservers, poolObservers, utilVars>>
    \/ \E c \in Callers : InsertAcquire(c) /\ UNCHANGED <<race, seqObservers, poolObservers, utilVars>>
    \/ \E c \in Callers : InsertLPOP(c) /\ UNCHANGED <<race, seqObservers, poolObservers, utilVars>>
    \/ \E c \in Callers : InsertBITFIELD(c) /\ UNCHANGED <<race, seqObservers, poolObservers, utilVars>>
    \/ \E c \in Callers : InsertPipeline(c) /\ UNCHANGED <<race, seqObservers, poolObservers, utilVars>>
    \/ \E c \in Callers : InsertLPUSH(c) /\ UNCHANGED <<race, seqObservers, poolObservers, utilVars>>
    \/ \E c \in Callers : InsertRelease(c) /\ UNCHANGED <<race, seqObservers, poolObservers, utilVars>>
    \/ \E c \in Callers, t \in 1..MaxNodes, keys \in Batches :
          calls < MaxCalls /\ FetchCall(c, t, keys) /\ RaceForget(c)
                           /\ UNCHANGED <<seqObservers, poolObservers, utilVars>>
    \/ \E c \in Callers : FetchAcquire(c) /\ UNCHANGED <<race, seqObservers, poolObservers, utilVars>>
    \/ \E c \in Callers : FetchHMGET(c) /\ UNCHANGED <<race, seqObservers, poolObservers, utilVars>>
    \/ \E c \in Callers : FetchRelease(c) /\ UNCHANGED <<race, seqObservers, poolObservers, utilVars>>

Spec == Init /\ [][Next]_vars

(* --------------------- one caller: specification SpecSeq -------------- *)
\* the single caller: the first of Callers
SeqCaller == CHOOSE c \in Callers : \A d \in Callers : c <= d

\* what the observers record when the caller starts a call
ObserveCall(c, isInsert, keys) ==
    /\ pre' = Store
    /\ prevFetch' = IF ~isInsert /\ pc[c] = "fetchDone"
                    THEN [target |-> target[c], primaryKeys |-> primaryKeys[c],
                          found |-> found[c], notFound |-> notFound[c]]
                    ELSE NoFetch
    /\ submitted' = IF isInsert THEN submitted \cup Range(keys) ELSE submitted
    /\ disjoint' = IF isInsert THEN disjoint /\ Range(keys) \cap submitted = {} ELSE disjoint
    /\ UNCHANGED <<returned, race, poolObservers, utilVars>>

\* what they record at a round trip: the pairs of an insert that returns
ObserveStep(c) ==
    /\ returned' = IF pc'[c] = "insertDone"
                   THEN returned \cup {<<f, inserted'[c][f]>> : f \in DOMAIN inserted'[c]}
                   ELSE returned
    /\ UNCHANGED <<pre, prevFetch, submitted, disjoint, race, poolObservers, utilVars>>

NextSeq ==
    \/ Construct(nodes, maxCapacity[nodes]) /\ UNCHANGED <<race, seqObservers, poolObservers, utilVars>>
    \/ \E t \in 1..MaxNodes, keys \in Batches :
          calls < SeqCalls /\ InsertCall(SeqCaller, t, keys)
                           /\ ObserveCall(SeqCaller, TRUE, keys)
    \/ InsertAcquire(SeqCaller) /\ ObserveStep(SeqCaller)
    \/ InsertLPOP(SeqCaller) /\ ObserveStep(SeqCaller)
    \/ InsertBITFIELD(SeqCaller) /\ ObserveStep(SeqCaller)
    \/ InsertPipeline(SeqCaller) /\ ObserveStep(SeqCaller)
    \/ InsertLPUSH(SeqCaller) /\ ObserveStep(SeqCaller)
    \/ InsertRelease(SeqCaller) /\ ObserveStep(SeqCaller)
    \/ \E t \in 1..MaxNodes, keys \in Batches :
          calls < SeqCalls /\ FetchCall(SeqCaller, t, keys)
                           /\ ObserveCall(SeqCaller, FALSE, keys)
    \/ FetchAcquire(SeqCaller) /\ ObserveStep(SeqCaller)
    \/ FetchHMGET(SeqCaller) /\ ObserveStep(SeqCaller)
    \/ FetchRelease(SeqCaller) /\ ObserveStep(SeqCaller)

SpecSeq == Init /\ [][NextSeq]_vars

(* ------------- the capacity scenario: specification SpecCap ----------- *)
\* the batch 1, 2, .. n of number keys
NumberKeys(n) == [i \in 1..n |-> NumberKey(i)]

\* the batch '1', 1, 2, .. n-1: the string '1' ahead of the numbers
MixedKeys(n) == <<StringKey("1")>> \o NumberKeys(n - 1)

\* one unchained dictionary of capacity 'u8' over an empty store
InitCap ==
    /\ nodes = 1
    /\ existingDictionary = [n \in 1..MaxNodes |-> 0]
    /\ maxCapacity = [n \in 1..MaxNodes |-> IF n = 1 THEN U8 ELSE 0]
    /\ InitStore
    /\ InitCalls
    /\ InitObservers
    /\ InitLock
    /\ InitQueue
    /\ InitWindow(MaxWindow)
    /\ InitMerge(<<>>)

\* one insert of 1 .. CapKeys distinct keys
NextCap ==
    \/ \E n \in 1..CapKeys : \E keys \in {NumberKeys(n), MixedKeys(n)} :
          /\ pc[SeqCaller] = "idle"
          /\ InsertCall(SeqCaller, 1, keys)
          /\ UNCHANGED <<race, seqObservers, poolObservers, utilVars>>
    \/ InsertAcquire(SeqCaller) /\ UNCHANGED <<race, seqObservers, poolObservers, utilVars>>
    \/ InsertLPOP(SeqCaller) /\ UNCHANGED <<race, seqObservers, poolObservers, utilVars>>
    \/ InsertBITFIELD(SeqCaller) /\ UNCHANGED <<race, seqObservers, poolObservers, utilVars>>
    \/ InsertPipeline(SeqCaller) /\ UNCHANGED <<race, seqObservers, poolObservers, utilVars>>
    \/ InsertLPUSH(SeqCaller) /\ UNCHANGED <<race, seqObservers, poolObservers, utilVars>>
    \/ InsertRelease(SeqCaller) /\ UNCHANGED <<race, seqObservers, poolObservers, utilVars>>

SpecCap == InitCap /\ [][NextCap]_vars

(* ------------- the validation scenario: specification SpecKeys ------- *)
AnyBatches == UNION {[1..n -> AnyKeys] : n \in 0..KeysBatch}

\* one insert of any batch on any dictionary of a chain built over an empty store
NextKeys ==
    \/ Construct(nodes, maxCapacity[nodes]) /\ UNCHANGED <<race, seqObservers, poolObservers, utilVars>>
    \/ \E t \in 1..MaxNodes, keys \in AnyBatches :
          /\ pc[SeqCaller] = "idle"
          /\ InsertCall(SeqCaller, t, keys)
          /\ UNCHANGED <<race, seqObservers, poolObservers, utilVars>>
    \/ InsertAcquire(SeqCaller) /\ UNCHANGED <<race, seqObservers, poolObservers, utilVars>>
    \/ InsertLPOP(SeqCaller) /\ UNCHANGED <<race, seqObservers, poolObservers, utilVars>>
    \/ InsertBITFIELD(SeqCaller) /\ UNCHANGED <<race, seqObservers, poolObservers, utilVars>>
    \/ InsertPipeline(SeqCaller) /\ UNCHANGED <<race, seqObservers, poolObservers, utilVars>>
    \/ InsertLPUSH(SeqCaller) /\ UNCHANGED <<race, seqObservers, poolObservers, utilVars>>
    \/ InsertRelease(SeqCaller) /\ UNCHANGED <<race, seqObservers, poolObservers, utilVars>>

SpecKeys == Init /\ [][NextKeys]_vars

(* -------- store commands that reject: specification SpecFail --------- *)
\* the awaits of redisConnection inside the try blocks, by the place of the call
InsertCommandsTried == {"acquire", "lpop", "bitfield", "pipeline", "lpush"}
FetchCommandsTried == {"fetchAcquire", "hmget"}

\* a rejection that leaves the function at once, as if there were no finally
StoreFails_NoFinally(c) ==
    /\ pc[c] \in InsertCommandsTried \cup FetchCommandsTried
    /\ error' = [error EXCEPT ![c] = pc[c]]
    /\ pc' = [pc EXCEPT ![c] = IF pc[c] \in FetchCommandsTried
                               THEN "fetchFailed" ELSE "insertFailed"]
    /\ UNCHANGED <<nodeVars, storeVars, target, cur, primaryKeys, inserted, overflow,
                   found, notFound, uniqueIds, insertCommands, token, acquired, calls>>

\* the pending command of the try block rejects, with no effect on the store:
\* the exception leaves the try block and control enters the finally block
StoreFails(c) ==
    /\ pc[c] \in InsertCommandsTried \cup FetchCommandsTried
    /\ error' = [error EXCEPT ![c] = pc[c]]
    /\ pc' = [pc EXCEPT ![c] = IF pc[c] \in FetchCommandsTried
                               THEN "fetchRelease" ELSE "release"]
    /\ UNCHANGED <<nodeVars, storeVars, target, cur, primaryKeys, inserted, overflow,
                   found, notFound, uniqueIds, insertCommands, token, acquired, calls>>

\* what the pool sees: acquire(token) resolved, release(token) called
ObserveSessionAcquire(c) ==
    /\ acquireLog' = acquireLog \cup {token[c]}
    /\ UNCHANGED <<releaseLog, rejected, race, seqObservers, utilVars>>

ObserveSessionRelease(c) ==
    /\ releaseLog' = MapSet(releaseLog, token[c],
                            IF token[c] \in DOMAIN releaseLog THEN releaseLog[token[c]] + 1 ELSE 1)
    /\ UNCHANGED <<acquireLog, rejected, race, seqObservers, utilVars>>

ObserveNewCall ==
    /\ rejected' = {}
    /\ UNCHANGED <<acquireLog, releaseLog, race, seqObservers, utilVars>>

ObserveRejection(c) ==
    /\ rejected' = rejected \cup {pc[c]}
    /\ UNCHANGED <<acquireLog, releaseLog, race, seqObservers, utilVars>>

ObserveNothing == UNCHANGED <<race, seqObservers, poolObservers, utilVars>>

\* one caller over a store whose commands may reject
NextFail ==
    \/ Construct(nodes, maxCapacity[nodes]) /\ ObserveNothing
    \/ \E t \in 1..MaxNodes, keys \in Batches :
          calls < FailCalls /\ InsertCall(SeqCaller, t, keys) /\ ObserveNewCall
    \/ InsertAcquire(SeqCaller) /\ ObserveSessionAcquire(SeqCaller)
    \/ InsertLPOP(SeqCaller) /\ ObserveNothing
    \/ InsertBITFIELD(SeqCaller) /\ ObserveNothing
    \/ InsertPipeline(SeqCaller) /\ ObserveNothing
    \/ InsertLPUSH(SeqCaller) /\ ObserveNothing
    \/ InsertRelease(SeqCaller) /\ ObserveSessionRelease(SeqCaller)
    \/ \E t \in 1..MaxNodes, keys \in Batches :
          calls < FailCalls /\ FetchCall(SeqCaller, t, keys) /\ ObserveNewCall
    \/ FetchAcquire(SeqCaller) /\ ObserveSessionAcquire(SeqCaller)
    \/ FetchHMGET(SeqCaller) /\ ObserveNothing
    \/ FetchRelease(SeqCaller) /\ ObserveSessionRelease(SeqCaller)
    \/ StoreFails(SeqCaller) /\ ObserveRejection(SeqCaller)

SpecFail == Init /\ [][NextFail]_vars

(* ------- two unchained dictionaries: specification SpecPair ---------- *)
\* two dictionaries constructed with different identities and no existingDictionary
InitPair ==
    /\ nodes = MaxNodes
    /\ existingDictionary = [n \in 1..MaxNodes |-> 0]
    /\ maxCapacity \in [1..MaxNodes -> Widths]
    /\ InitStore
    /\ InitCalls
    /\ InitObservers
    /\ InitLock
    /\ InitQueue
    /\ InitWindow(MaxWindow)
    /\ InitMerge(<<>>)

NextPair ==
    \/ \E t \in 1..MaxNodes, keys \in Batches :
          calls < PairCalls /\ InsertCall(SeqCaller, t, keys)
                            /\ ObserveCall(SeqCaller, TRUE, keys)
    \/ InsertAcquire(SeqCaller) /\ ObserveStep(SeqCaller)
    \/ InsertLPOP(SeqCaller) /\ ObserveStep(SeqCaller)
    \/ InsertBITFIELD(SeqCaller) /\ ObserveStep(SeqCaller)
    \/ InsertPipeline(SeqCaller) /\ ObserveStep(SeqCaller)
    \/ InsertLPUSH(SeqCaller) /\ ObserveStep(SeqCaller)
    \/ InsertRelease(SeqCaller) /\ ObserveStep(SeqCaller)
    \/ \E t \in 1..MaxNodes, keys \in Batches :
          calls < PairCalls /\ FetchCall(SeqCaller, t, keys)
                            /\ ObserveCall(SeqCaller, FALSE, keys)
    \/ FetchAcquire(SeqCaller) /\ ObserveStep(SeqCaller)
    \/ FetchHMGET(SeqCaller) /\ ObserveStep(SeqCaller)
    \/ FetchRelease(SeqCaller) /\ ObserveStep(SeqCaller)

SpecPair == InitPair /\ [][NextPair]_vars

(* -------- the sharding caller: specification SpecShard --------------- *)
\* the caller's handle: the newest shard
hierarchicalShardInstance == nodes

\* the keys submitted so far, as the array the final fetch is called with
KeyOrder == <<StringKey("A"), StringKey("1"), NumberKey(1), StringKey("")>>
SubmittedKeys == SelectSeq(KeyOrder, LAMBDA k : k \in submitted)

\* the outer loop: insert the next batch on the head
ShardInsert(c, keys) ==
    /\ pc[c] \in {"idle", "insertDone"}
    /\ overflow[c] = <<>>
    /\ calls < ShardCalls
    /\ InsertCall(c, hierarchicalShardInstance, keys)
    /\ ObserveCall(c, TRUE, keys)

\* the inner loop, first half: overflow came back from the head, so a new shard
\* of the same capacity is chained onto it and becomes the head
ShardConstruct(c) ==
    /\ pc[c] = "insertDone"
    /\ overflow[c] # <<>>
    /\ target[c] = hierarchicalShardInstance
    /\ Construct(hierarchicalShardInstance, maxCapacity[hierarchicalShardInstance])
    /\ UNCHANGED <<race, seqObservers, poolObservers, utilVars>>

\* the inner loop, second half: the overflow is inserted on the new head
ShardReinsert(c) ==
    /\ pc[c] = "insertDone"
    /\ overflow[c] # <<>>
    /\ target[c] # hierarchicalShardInstance
    /\ InsertCall(c, hierarchicalShardInstance, overflow[c])
    /\ ObserveCall(c, TRUE, overflow[c])

\* after the loops: fetchUniqueIds on the head for every key submitted
ShardFetch(c) ==
    /\ pc[c] = "insertDone"
    /\ overflow[c] = <<>>
    /\ FetchCall(c, hierarchicalShardInstance, SubmittedKeys)
    /\ ObserveCall(c, FALSE, SubmittedKeys)

NextShard ==
    \/ \E keys \in Batches : ShardInsert(SeqCaller, keys)
    \/ ShardConstruct(SeqCaller)
    \/ ShardReinsert(SeqCaller)
    \/ ShardFetch(SeqCaller)
    \/ InsertAcquire(SeqCaller) /\ ObserveStep(SeqCaller)
    \/ InsertLPOP(SeqCaller) /\ ObserveStep(SeqCaller)
    \/ InsertBITFIELD(SeqCaller) /\ ObserveStep(SeqCaller)
    \/ InsertPipeline(SeqCaller) /\ ObserveStep(SeqCaller)
    \/ InsertLPUSH(SeqCaller) /\ ObserveStep(SeqCaller)
    \/ InsertRelease(SeqCaller) /\ ObserveStep(SeqCaller)
    \/ FetchAcquire(SeqCaller) /\ ObserveStep(SeqCaller)
    \/ FetchHMGET(SeqCaller) /\ ObserveStep(SeqCaller)
    \/ FetchRelease(SeqCaller) /\ ObserveStep(SeqCaller)

SpecShard == Init /\ [][NextShard]_vars

(* ------------------ SpinWaitLock: specification SpecLock -------------- *)
\* Atomics.compareExchange(typedArray, index, expectedValue, replacementValue):
\* the old value and the value left in the array
compareExchange(value, expectedValue, replacementValue) ==
    [old |-> value,
     new |-> IF value = expectedValue THEN replacementValue ELSE value]

\* acquire with the expected and the replacement value swapped
SpinAcquire_Swapped(t, spinExitCondition) ==
    LET r == compareExchange(lock, 1, 0)
    IN /\ lock' = r.new
       /\ spin' = [spin EXCEPT ![t] =
                      IF r.old = 0 THEN "Acquired"
                      ELSE IF spinExitCondition THEN "Condition"
                      ELSE "spinning"]

\* acquire(spinTime, spinExitCondition): one turn of the while loop, begun by the
\* call or by the timer the thread was waiting on
SpinAcquire(t, spinExitCondition) ==
    LET r == compareExchange(lock, 0, 1)
    IN /\ lock' = r.new
       /\ spin' = [spin EXCEPT ![t] =
                      IF r.old = 0 THEN "Acquired"
                      ELSE IF spinExitCondition THEN "Condition"
                      ELSE "spinning"]

\* release(): Atomics.store(this.lock, this.LOCK_INDEX, 0)
SpinRelease ==
    /\ lock' = 0
    /\ UNCHANGED spin

\* the observer counts the acquires that returned Acquired since the last release
ObserveAcquire(t) ==
    holders' = IF spin'[t] = "Acquired" THEN holders + 1 ELSE holders

ObserveRelease == holders' = 0

\* threads that share one lock: each calls acquire, with an exit condition that
\* holds or not at each turn, and release, at any time
NextLock ==
    \/ \E t \in Threads, spinExitCondition \in BOOLEAN :
          /\ SpinAcquire(t, spinExitCondition)
          /\ ObserveAcquire(t)
          /\ UNCHANGED <<otherVars, queueVars, queueObservers>>
    \/ \E t \in Threads :
          /\ spin[t] # "spinning"
          /\ SpinRelease
          /\ ObserveRelease
          /\ UNCHANGED <<otherVars, queueVars, queueObservers>>

SpecLock == Init /\ [][NextLock]_vars

(* ---------- SequentialInvocationQueue: specification SpecQueue -------- *)
Args == 1..MaxArgs

\* this.invocationQueue[index] = args, for an index of the array or its end
QueueSet(queue, index, a) ==
    IF index = Len(queue) THEN Append(queue, a)
    ELSE [queue EXCEPT ![index + 1] = a]

\* this.invocationQueue.splice(index, 1)
Splice(queue, index) ==
    IF index >= Len(queue) THEN queue
    ELSE SubSeq(queue, 1, index) \o SubSeq(queue, index + 2, Len(queue))

\* what acquire's last turn leaves the caller of invoke with
AfterAcquire(spinState) ==
    IF spinState = "Acquired" THEN "acquired"
    ELSE IF spinState = "Condition" THEN "condition"
    ELSE "acquire"

\* invoke(args, spinTime, index) up to its first await: the queue-full return,
\* the write to the queue and the first turn of lock.acquire
Invoke(t, a, index) ==
    /\ invocation[t] \in {"idle", "returned"}
    /\ args' = [args EXCEPT ![t] = a]
    /\ IF Len(invocationQueue) >= MaxQueueLength
       THEN /\ state' = [state EXCEPT ![t] = "error:queue-full"]
            /\ invocation' = [invocation EXCEPT ![t] = "returned"]
            /\ UNCHANGED <<invocationQueue, lock, spin>>
       ELSE /\ invocationQueue' = IF index = NoIndex
                                  THEN Append(invocationQueue, a)
                                  ELSE QueueSet(invocationQueue, index, a)
            /\ SpinAcquire(t, Len(invocationQueue') <= 0)
            /\ invocation' = [invocation EXCEPT ![t] = AfterAcquire(spin'[t])]
            /\ state' = [state EXCEPT ![t] = "none"]
    /\ UNCHANGED invocationParams

\* a later turn of lock.acquire(spinTime, () => this.invocationQueue.length <= 0),
\* begun by its timer
InvokeAcquire(t) ==
    /\ invocation[t] = "acquire"
    /\ SpinAcquire(t, Len(invocationQueue) <= 0)
    /\ invocation' = [invocation EXCEPT ![t] = AfterAcquire(spin'[t])]
    /\ UNCHANGED <<invocationQueue, args, invocationParams, state>>

\* the code after the await with pop() in place of shift()
InvokeShift_Pop(t) ==
    /\ invocation[t] \in {"acquired", "condition"}
    /\ IF invocation[t] = "condition" \/ Len(invocationQueue) = 0
       THEN /\ state' = [state EXCEPT ![t] = "error:queue-empty"]
            /\ invocation' = [invocation EXCEPT ![t] = "returned"]
            /\ SpinRelease
            /\ UNCHANGED <<invocationQueue, invocationParams>>
       ELSE /\ invocationParams' = [invocationParams EXCEPT ![t] =
                                        invocationQueue[Len(invocationQueue)]]
            /\ invocationQueue' = SubSeq(invocationQueue, 1, Len(invocationQueue) - 1)
            /\ invocation' = [invocation EXCEPT ![t] = "executing"]
            /\ UNCHANGED <<state, lock, spin>>
    /\ UNCHANGED args

\* the code after the await: a lock that was not acquired, or an empty queue,
\* gives error:queue-empty and the finally block releases; otherwise the first
\* arguments are shifted off the queue and invocationFunction starts
InvokeShift(t) ==
    /\ invocation[t] \in {"acquired", "condition"}
    /\ IF invocation[t] = "condition" \/ Len(invocationQueue) = 0
       THEN /\ state' = [state EXCEPT ![t] = "error:queue-empty"]
            /\ invocation' = [invocation EXCEPT ![t] = "returned"]
            /\ SpinRelease
            /\ UNCHANGED <<invocationQueue, invocationParams>>
       ELSE /\ invocationParams' = [invocationParams EXCEPT ![t] = Head(invocationQueue)]
            /\ invocationQueue' = Tail(invocationQueue)
            /\ invocation' = [invocation EXCEPT ![t] = "executing"]
            /\ UNCHANGED <<state, lock, spin>>
    /\ UNCHANGED args

\* invocationFunction resolves: success, and the finally block releases
InvokeReturn(t) ==
    /\ invocation[t] = "executing"
    /\ state' = [state EXCEPT ![t] = "success"]
    /\ invocation' = [invocation EXCEPT ![t] = "returned"]
    /\ SpinRelease
    /\ UNCHANGED <<invocationQueue, args, invocationParams>>

\* delete(index)
Delete(index) ==
    /\ invocationQueue' = Splice(invocationQueue, index)
    /\ UNCHANGED <<invocation, args, invocationParams, state, lock, spin>>

\* clear()
Clear ==
    /\ invocationQueue' = <<>>
    /\ UNCHANGED <<invocation, args, invocationParams, state, lock, spin>>

\* callers of one queue: invoke with and without an index, delete and clear
NextQueue ==
    \/ \E t \in Threads, a \in Args, index \in {NoIndex} \cup 0..Len(invocationQueue) :
          /\ Invoke(t, a, index)
          /\ IF invocation'[t] = "returned" THEN UNCHANGED holders ELSE ObserveAcquire(t)
          /\ UNCHANGED <<otherVars, queueObservers>>
    \/ \E t \in Threads : InvokeAcquire(t) /\ ObserveAcquire(t) /\ UNCHANGED <<otherVars, queueObservers>>
    \/ \E t \in Threads :
          /\ InvokeShift(t)
          /\ IF invocation'[t] = "returned" THEN ObserveRelease ELSE UNCHANGED holders
          /\ UNCHANGED <<otherVars, queueObservers>>
    \/ \E t \in Threads : InvokeReturn(t) /\ ObserveRelease /\ UNCHANGED <<otherVars, queueObservers>>
    \/ \E index \in 0..Len(invocationQueue) :
          invocationQueue # <<>> /\ Delete(index) /\ UNCHANGED <<otherVars, queueObservers, holders>>
    \/ invocationQueue # <<>> /\ Clear /\ UNCHANGED <<otherVars, queueObservers, holders>>

SpecQueue == Init /\ [][NextQueue]_vars

(* ------ invoke alone, in order of arrival: specification SpecFifo ----- *)
\* the observer appends what invoke wrote to the queue
ObserveAdded(t) ==
    /\ added' = IF Len(invocationQueue') > Len(invocationQueue)
                THEN Append(added, args'[t]) ELSE added
    /\ UNCHANGED executed

\* and what invocationFunction was started with
ObserveExecuted(t) ==
    /\ executed' = IF invocation'[t] = "executing"
                   THEN Append(executed, invocationParams'[t]) ELSE executed
    /\ UNCHANGED added

\* callers that only call invoke(args), with no index, delete or clear
NextFifo ==
    \/ \E t \in Threads, a \in Args :
          /\ Len(added) < MaxInvokes
          /\ Invoke(t, a, NoIndex)
          /\ ObserveAdded(t)
          /\ IF invocation'[t] = "returned" THEN UNCHANGED holders ELSE ObserveAcquire(t)
          /\ UNCHANGED otherVars
    \/ \E t \in Threads :
          InvokeAcquire(t) /\ ObserveAcquire(t) /\ UNCHANGED <<otherVars, queueObservers>>
    \/ \E t \in Threads :
          /\ InvokeShift(t)
          /\ ObserveExecuted(t)
          /\ IF invocation'[t] = "returned" THEN ObserveRelease ELSE UNCHANGED holders
          /\ UNCHANGED otherVars
    \/ \E t \in Threads :
          InvokeReturn(t) /\ ObserveRelease /\ UNCHANGED <<otherVars, queueObservers>>

SpecFifo == Init /\ [][NextFifo]_vars

(* ------------- DistributedWindow: specification SpecWindow ------------ *)
\* for (index = 0; index < allElements.length; index += windowSize)
\*     result.push(allElements.slice(index, index + windowSize))
RECURSIVE SliceLoop(_, _, _)
SliceLoop(allElements, index, result) ==
    IF index >= Len(allElements) THEN result
    ELSE SliceLoop(allElements, index + windowSize,
                   Append(result, SubSeq(allElements, index + 1,
                                         Min(index + windowSize, Len(allElements)))))

\* an accumulator that adds at the front of its array
AccumulatorAdd_Unshift(array, element) == <<element>> \o array

\* the accumulator: add pushes onto the array (its new length is what add
\* returns), drain splices `length` elements off the front, flush all of them
AccumulatorAdd(array, element) == Append(array, element)

\* a drain that returns the elements and leaves them in the array
AccumulatorDrain_Keep(array, length) ==
    [drained |-> SubSeq(array, 1, Min(length, Len(array))),
     rest    |-> array]

AccumulatorDrain(array, length) ==
    [drained |-> SubSeq(array, 1, Min(length, Len(array))),
     rest    |-> SubSeq(array, Min(length, Len(array)) + 1, Len(array))]

AccumulatorFlush(array) == AccumulatorDrain(array, Len(array))

\* a call of window(element) that has not run its add yet
NewFrame(element) ==
    [at |-> "add", element |-> element, accumulatedLength |-> 0,
     allElements |-> <<>>, result |-> <<>>]

\* WhileLoop: the call `frame`, above the calls `below`, is at the test of its
\* while loop: it pops an element and calls window on it, or slices what is left
\* and returns. FrameReturn: a call returned `ret` to the calls `below`: the
\* innermost of them pushes the windows onto its result and is back at its
\* while loop; with no call left, `ret` is what the caller gets.
RECURSIVE WhileLoop(_, _)
RECURSIVE FrameReturn(_, _)
\* the call slices what drain returned without re-accumulating the remainder
WhileLoop_Skipped(below, frame) ==
    FrameReturn(below, Windows(SliceLoop(frame.allElements, 0, frame.result)))

WhileLoop(below, frame) ==
    IF Len(frame.allElements) % windowSize # 0
    THEN LET n == Len(frame.allElements)
             waiting == [frame EXCEPT !.at = "inner",
                                      !.allElements = SubSeq(frame.allElements, 1, n - 1)]
         IN [frames |-> below \o <<waiting, NewFrame(frame.allElements[n])>>,
             returned |-> undefined, done |-> FALSE]
    ELSE FrameReturn(below, Windows(SliceLoop(frame.allElements, 0, frame.result)))

FrameReturn(below, ret) ==
    IF below = <<>> THEN [frames |-> <<>>, returned |-> ret, done |-> TRUE]
    ELSE LET parent == below[Len(below)]
             innerWindows == IF ret.defined THEN ret.windows ELSE <<>>
         IN WhileLoop(SubSeq(below, 1, Len(below) - 1),
                      [parent EXCEPT !.result = parent.result \o innerWindows])

\* window(element), called by a user: the pass-through of windowSize 1, or a
\* call that is about to add
WindowCall(t, element) ==
    /\ frames[t] = <<>>
    /\ IF windowSize = 1
       THEN /\ windows' = [windows EXCEPT ![t] = Windows(<< <<element>> >>)]
            /\ UNCHANGED frames
       ELSE /\ frames' = [frames EXCEPT ![t] = <<NewFrame(element)>>]
            /\ windows' = [windows EXCEPT ![t] = undefined]
    /\ UNCHANGED <<windowSize, elements>>

\* Instruction 1: accumulatedLength = await distributedAccumulator.add(element)
WindowAdd(t) ==
    /\ frames[t] # <<>>
    /\ LET n == Len(frames[t])
           frame == frames[t][n]
           below == SubSeq(frames[t], 1, n - 1)
           accumulatedLength == Len(elements) + 1
           r == IF accumulatedLength % windowSize = 0
                THEN [frames |-> below \o <<[frame EXCEPT !.at = "drain",
                                                   !.accumulatedLength = accumulatedLength]>>,
                      returned |-> undefined, done |-> FALSE]
                ELSE FrameReturn(below, undefined)
       IN /\ frame.at = "add"
          /\ elements' = AccumulatorAdd(elements, frame.element)
          /\ frames' = [frames EXCEPT ![t] = r.frames]
          /\ windows' = [windows EXCEPT ![t] = r.returned]
    /\ UNCHANGED windowSize

\* Instruction 2: allElements = await distributedAccumulator.drain(accumulatedLength),
\* then the loops, up to the next await or the return
WindowDrain(t) ==
    /\ frames[t] # <<>>
    /\ LET n == Len(frames[t])
           frame == frames[t][n]
           below == SubSeq(frames[t], 1, n - 1)
           drain == AccumulatorDrain(elements, frame.accumulatedLength)
           allElements == drain.drained
           r == IF Len(allElements) = 0
                THEN FrameReturn(below, undefined)
                ELSE WhileLoop(below, [frame EXCEPT !.allElements = allElements])
       IN /\ frame.at = "drain"
          /\ elements' = drain.rest
          /\ frames' = [frames EXCEPT ![t] = r.frames]
          /\ windows' = [windows EXCEPT ![t] = r.returned]
    /\ UNCHANGED windowSize

\* flush(): allElements = await distributedAccumulator.flush(), sliced
WindowFlush(t) ==
    /\ frames[t] = <<>>
    /\ elements' = AccumulatorFlush(elements).rest
    /\ windows' = [windows EXCEPT ![t] =
                      Windows(SliceLoop(AccumulatorFlush(elements).drained, 0, <<>>))]
    /\ UNCHANGED <<windowSize, frames>>

\* the observers: what was passed in, and what came back once a call is over
ObserveWindow(t) ==
    /\ collected' = IF frames'[t] = <<>> /\ windows'[t].defined
                    THEN collected \o windows'[t].windows ELSE collected
    /\ UNCHANGED <<pushed, flushes>>

ObservePush(t, element) ==
    /\ pushed' = Append(pushed, element)
    /\ collected' = IF frames'[t] = <<>> /\ windows'[t].defined
                    THEN collected \o windows'[t].windows ELSE collected
    /\ UNCHANGED flushes

ObserveFlush(t) ==
    /\ flushes' = Append(flushes, windows'[t].windows)
    /\ collected' = collected \o windows'[t].windows
    /\ UNCHANGED pushed

\* the single caller of the window: the first of Threads
WindowCaller == CHOOSE t \in Threads : \A u \in Threads : t <= u

\* a DistributedWindow of any size over an empty accumulator
InitWindows ==
    /\ nodes = 1
    /\ existingDictionary = [n \in 1..MaxNodes |-> 0]
    /\ maxCapacity = [n \in 1..MaxNodes |-> IF n = 1 THEN U8 ELSE 0]
    /\ InitStore
    /\ InitCalls
    /\ InitObservers
    /\ InitLock
    /\ InitQueue
    /\ \E size \in 1..MaxWindow : InitWindow(size)
    /\ InitMerge(<<>>)

\* one caller that awaits each call: it pushes elements one at a time, then flushes
NextWindow ==
    \/ \E element \in Args :
          /\ Len(pushed) < MaxPushes
          /\ flushes = <<>>
          /\ WindowCall(WindowCaller, element)
          /\ ObservePush(WindowCaller, element)
          /\ UNCHANGED <<daipkVars, syncVars, mergeVars>>
    \/ WindowAdd(WindowCaller) /\ ObserveWindow(WindowCaller) /\ UNCHANGED <<daipkVars, syncVars, mergeVars>>
    \/ WindowDrain(WindowCaller) /\ ObserveWindow(WindowCaller) /\ UNCHANGED <<daipkVars, syncVars, mergeVars>>
    \/ /\ Len(flushes) < MaxFlushes
       /\ WindowFlush(WindowCaller)
       /\ ObserveFlush(WindowCaller)
       /\ UNCHANGED <<daipkVars, syncVars, mergeVars>>

SpecWindow == InitWindows /\ [][NextWindow]_vars

(* ---- concurrent callers of one accumulator: specification SpecShared --- *)
\* callers that do not await each other: any thread without a call in progress
\* starts window(element) or flush(), and the awaits of the calls in progress
\* (add, drain) resolve in any order. The elements passed are told apart by
\* their number: the k-th element passed is k.
NextShared ==
    \/ \E t \in Threads :
          /\ Len(pushed) < SharedPushes
          /\ WindowCall(t, Len(pushed) + 1)
          /\ ObservePush(t, Len(pushed) + 1)
          /\ UNCHANGED <<daipkVars, syncVars, mergeVars>>
    \/ \E t \in Threads :
          WindowAdd(t) /\ ObserveWindow(t) /\ UNCHANGED <<daipkVars, syncVars, mergeVars>>
    \/ \E t \in Threads :
          WindowDrain(t) /\ ObserveWindow(t) /\ UNCHANGED <<daipkVars, syncVars, mergeVars>>
    \/ \E t \in Threads :
          /\ Len(flushes) < MaxFlushes
          /\ WindowFlush(t)
          /\ ObserveFlush(t)
          /\ UNCHANGED <<daipkVars, syncVars, mergeVars>>

SpecShared == InitWindows /\ [][NextShared]_vars

(* ------------------------------- kWayMerge ------------------------------- *)
Values == 1..MaxValue
Elements == {Number(v) : v \in Values} \cup {null, NaN, undefinedValue}

\* the valid elements of an array ascend
Sorted(array) ==
    \A i, j \in DOMAIN array :
        (i < j /\ array[i].type = "number" /\ array[j].type = "number")
            => array[i].value <= array[j].value

Arrays == {array \in UNION {[1..n -> Elements] : n \in 0..MaxLength} : Sorted(array)}
Inputs == UNION {[1..k -> Arrays] : k \in 0..MaxIterators}

\* next() of an array iterator that has given `taken` elements
IteratorNext(array, taken) ==
    IF taken < Len(array)
    THEN [value |-> array[taken + 1], done |-> FALSE]
    ELSE [value |-> undefinedValue, done |-> TRUE]

\* the locals of the generator that the loop body changes
Locals == [compareFrame |-> compareFrame, cursors |-> cursors,
           doneCounter |-> doneCounter, endReachedIndexes |-> endReachedIndexes]

\* the test on yieldIndex
CanYield(yieldIndex, st) ==
    /\ yieldIndex.type = "number"
    /\ yieldIndex.value >= 0
    /\ yieldIndex.value < Len(st.compareFrame)
    /\ yieldIndex.value \notin st.endReachedIndexes

\* the test on one purgeIndex
CanPurge(purgeIndex, st) ==
    /\ purgeIndex.type = "number"
    /\ purgeIndex.value # -1
    /\ purgeIndex.value >= 0
    /\ purgeIndex.value < Len(st.compareFrame)
    /\ purgeIndex.value \notin st.endReachedIndexes

\* nextCursor = iterators[index].next(); compareFrame[index] = nextCursor.value;
\* a done iterator is counted and remembered
Advance(st, index) ==
    LET nextCursor == IteratorNext(iterators[index + 1], st.cursors[index + 1])
    IN  [compareFrame |-> [st.compareFrame EXCEPT ![index + 1] = nextCursor.value],
         cursors |-> [st.cursors EXCEPT ![index + 1] = IF nextCursor.done THEN @ ELSE @ + 1],
         doneCounter |-> IF nextCursor.done THEN st.doneCounter - 1 ELSE st.doneCounter,
         endReachedIndexes |-> IF nextCursor.done THEN st.endReachedIndexes \cup {index}
                                                  ELSE st.endReachedIndexes]

\* for (const purgeIndex of purgeIndexes)
RECURSIVE PurgeLoop(_, _)
PurgeLoop(purgeIndexes, st) ==
    IF purgeIndexes = <<>> THEN st
    ELSE PurgeLoop(Tail(purgeIndexes),
                   IF CanPurge(Head(purgeIndexes), st)
                   THEN Advance(st, Head(purgeIndexes).value) ELSE st)

\* the first next() of the generator: the frame is filled with the first
\* element of every iterator, and every iterator is counted as not done
MergeStart ==
    /\ merge = "created"
    /\ compareFrame' = [i \in DOMAIN iterators |-> IteratorNext(iterators[i], 0).value]
    /\ cursors' = [i \in DOMAIN iterators |-> IF IteratorNext(iterators[i], 0).done THEN 0 ELSE 1]
    /\ doneCounter' = Len(iterators)
    /\ merge' = IF Len(iterators) > 0 THEN "running" ELSE "done"
    /\ UNCHANGED <<iterators, endReachedIndexes, frameResult, yielded>>

\* else if (exitLoop === true) throw: never reached when there are purge indexes
Throws_Never(purgeIndexes, exitLoop) == FALSE

Throws(purgeIndexes, exitLoop) == Len(purgeIndexes) = 0 /\ exitLoop

\* one turn of the while loop, on what frameProcessFunction returned for the frame
MergeFrame(processed) ==
    LET yieldIndex == processed.yieldIndex
        purgeIndexes == processed.purgeIndexes
        yields == CanYield(yieldIndex, Locals)
        exitLoop == ~yields
        afterYield == IF yields THEN Advance(Locals, yieldIndex.value) ELSE Locals
        afterPurge == IF Len(purgeIndexes) > 0 THEN PurgeLoop(purgeIndexes, afterYield)
                                               ELSE afterYield
        throws == Throws(purgeIndexes, exitLoop)
    IN  /\ merge = "running"
        /\ doneCounter > 0
        /\ frameResult' = processed
        /\ yielded' = IF yields THEN Append(yielded, compareFrame[yieldIndex.value + 1])
                                ELSE yielded
        /\ compareFrame' = afterPurge.compareFrame
        /\ cursors' = afterPurge.cursors
        /\ doneCounter' = afterPurge.doneCounter
        /\ endReachedIndexes' = afterPurge.endReachedIndexes
        /\ merge' = IF throws THEN "thrown"
                    ELSE IF afterPurge.doneCounter > 0 THEN "running" ELSE "done"
        /\ UNCHANGED iterators

\* the frame function of the tests: the index of the smallest number of the
\* frame, the first one of equals, and the indexes of what is no number
RECURSIVE AscendingLoop(_, _, _, _, _)
AscendingLoop(frame, i, minIndex, minValue, dropIndexes) ==
    IF i >= Len(frame)
    THEN [yieldIndex |-> Number(minIndex), purgeIndexes |-> dropIndexes]
    ELSE IF frame[i + 1].type # "number"
         THEN AscendingLoop(frame, i + 1, minIndex, minValue, Append(dropIndexes, Number(i)))
         ELSE IF minIndex = -1 \/ frame[i + 1].value < minValue
              THEN AscendingLoop(frame, i + 1, i, frame[i + 1].value, dropIndexes)
              ELSE AscendingLoop(frame, i + 1, minIndex, minValue, dropIndexes)

ascendingProcessFunction(frame) == AscendingLoop(frame, 0, -1, 0, <<>>)

InitMerges ==
    /\ nodes = 1
    /\ existingDictionary = [n \in 1..MaxNodes |-> 0]
    /\ maxCapacity = [n \in 1..MaxNodes |-> IF n = 1 THEN U8 ELSE 0]
    /\ InitStore
    /\ InitCalls
    /\ InitObservers
    /\ InitLock
    /\ InitQueue
    /\ InitWindow(MaxWindow)
    /\ \E its \in Inputs : InitMerge(its)

\* a consumer that reads the generator to its end
NextMerge ==
    \/ MergeStart /\ UNCHANGED <<daipkVars, syncVars, windowVars, windowObservers>>
    \/ MergeFrame(ascendingProcessFunction(compareFrame))
          /\ UNCHANGED <<daipkVars, syncVars, windowVars, windowObservers>>

SpecMerge == InitMerges /\ [][NextMerge]_vars

\* what a frame function can return: any index, usable or not, to yield and to purge
FrameIndexes == {null, NaN} \cup {Number(i) : i \in -1..MaxIterators}
FrameResults == [yieldIndex : FrameIndexes,
                 purgeIndexes : UNION {[1..n -> FrameIndexes] : n \in 0..MaxPurges}]

\* no frame function looks at the elements here: fewer iterators, of numbers only
FrameInputs ==
    {its \in Inputs : /\ Len(its) < MaxIterators
                      /\ \A k \in DOMAIN its : \A i \in DOMAIN its[k] : its[k][i].type = "number"}

InitFrames ==
    /\ nodes = 1
    /\ existingDictionary = [n \in 1..MaxNodes |-> 0]
    /\ maxCapacity = [n \in 1..MaxNodes |-> IF n = 1 THEN U8 ELSE 0]
    /\ InitStore
    /\ InitCalls
    /\ InitObservers
    /\ InitLock
    /\ InitQueue
    /\ InitWindow(MaxWindow)
    /\ \E its \in FrameInputs : InitMerge(its)

\* a consumer that reads a generator whose frame function returns anything
NextFrame ==
    \/ MergeStart /\ UNCHANGED <<daipkVars, syncVars, windowVars, windowObservers>>
    \/ \E processed \in FrameResults :
          /\ MergeFrame(processed)
          /\ UNCHANGED <<daipkVars, syncVars, windowVars, windowObservers>>

SpecFrame == InitFrames /\ [][NextFrame]_vars

(* ------------------------------- claims ------------------------------- *)
BoundIds(n) == {redisHash[redisHashKey(n)][f] : f \in DOMAIN redisHash[redisHashKey(n)]}

\* C1: as long as the insert calls made so far have pairwise disjoint key sets,
\* no two fields of a node's forward map hold the same unique id.
C1_IdBoundOnce ==
    disjoint =>
        \A n \in Nodes : \A f1, f2 \in DOMAIN redisHash[redisHashKey(n)] :
            f1 # f2 => redisHash[redisHashKey(n)][f1] # redisHash[redisHashKey(n)][f2]

\* C2: a field of a forward map keeps its unique id in every later state: no
\* step removes the field or changes its value.
C2_BindingNeverOverwritten ==
    [][\A n \in 1..MaxNodes : \A f \in DOMAIN redisHash[redisHashKey(n)] :
          f \in DOMAIN redisHash'[redisHashKey(n)] /\ redisHash'[redisHashKey(n)][f] = redisHash[redisHashKey(n)][f]]_vars

\* C3: in every state, no integer of a node's reclaim list is the integer of a
\* unique id that the node's forward map binds.
C3_ReclaimDisjointFromBound ==
    \A n \in Nodes : \A i \in Range(redisRefurbishedList[redisRefurbishedListKey(n)]) :
        UniqueId(n, i) \notin BoundIds(n)

\* C4: after two inserts that raced on a new key K of one node have both
\* returned, at most one reports K, the forward map binds K to the id the
\* winner reported, and the integer the other call paired with K is in the
\* reclaim list and is not bound to K.
C4_RaceHasOneWinner ==
    \A r \in race :
        LET c == r[1]
            d == r[2]
            K == r[3]
            n == r[4]
        IN (pc[c] = "insertDone" /\ pc[d] = "insertDone") =>
              /\ ~(K \in DOMAIN inserted[c] /\ K \in DOMAIN inserted[d])
              /\ \A w \in {c, d} :
                    K \in DOMAIN inserted[w] =>
                        K \in DOMAIN redisHash[redisHashKey(n)] /\ redisHash[redisHashKey(n)][K] = inserted[w][K]
              /\ \A l \in {c, d} :
                    K \notin DOMAIN inserted[l] =>
                        \A cmd \in Range(insertCommands[l]) :
                            cmd[1] = K =>
                                /\ cmd[2][2] \in Range(redisRefurbishedList[redisRefurbishedListKey(n)])
                                /\ redisHash[redisHashKey(n)][K] # cmd[2]

\* C5 as stated: 300 distinct keys into an empty u8 dictionary give 256 entries in
\* the inserted map and 44 keys in overflow.
C5_Capacity256 ==
    (pc[SeqCaller] = "insertDone" /\ Len(primaryKeys[SeqCaller]) = 300) =>
        /\ Cardinality(DOMAIN inserted[SeqCaller]) = 256
        /\ Len(overflow[SeqCaller]) = 44

\* C5 amended: a u8 counter saturates at 255 and grants the integers 0 .. 254, so
\* the insert of n distinct keys pairs the first min(n, 255) of them with an id
\* and returns the others in overflow; the inserted map has one entry for each
\* string form among the paired keys. For 300 keys: 45 keys in overflow and at
\* most 255 entries, exactly 255 when the keys' string forms are all different.
C5_Capacity255 ==
    pc[SeqCaller] = "insertDone" =>
        LET keys == primaryKeys[SeqCaller]
            n == Len(keys)
            pairedKeys == SubSeq(keys, 1, Min(n, 255))
        IN /\ Len(overflow[SeqCaller]) = n - Min(n, 255)
           /\ Cardinality(DOMAIN inserted[SeqCaller]) = Cardinality(FieldsOf(pairedKeys))
           /\ n = 300 =>
                 /\ Len(overflow[SeqCaller]) = 45
                 /\ Cardinality(DOMAIN inserted[SeqCaller]) <= 255
                 /\ Cardinality(FieldsOf(keys)) = 300 =>
                       Cardinality(DOMAIN inserted[SeqCaller]) = 255

C5_Witness ==
    /\ pc[SeqCaller] = "insertDone"
    /\ Len(primaryKeys[SeqCaller]) = 300
    /\ redisCounter[redisCounterKey(1)] = 255
    /\ Len(overflow[SeqCaller]) = 45
    /\ Cardinality(DOMAIN inserted[SeqCaller]) = 255

ChainNodes(t) == Range(Chain(t))

\* the counter of node n is saturated and its reclaim list is empty in store s
SatEmpty(s, n) == s.counter[redisCounterKey(n)] = MaxCounter(maxCapacity[n]) /\ s.list[redisRefurbishedListKey(n)] = <<>>

\* C6: an insert that found a node saturated with an empty reclaim list has
\* returned leaving that node's forward map, counter and list as they were and
\* reporting no id of that node; when that holds of every node it ran through,
\* it returned every valid distinct key of its batch in overflow.
C6_SaturatedNodeBindsNothing ==
    \A c \in Callers :
        pc[c] = "insertDone" =>
            /\ \A n \in ChainNodes(target[c]) :
                  SatEmpty(pre, n) =>
                      /\ redisHash[redisHashKey(n)] = pre.hash[redisHashKey(n)]
                      /\ redisCounter[redisCounterKey(n)] = pre.counter[redisCounterKey(n)]
                      /\ redisRefurbishedList[redisRefurbishedListKey(n)] = pre.list[redisRefurbishedListKey(n)]
                      /\ \A f \in DOMAIN inserted[c] : inserted[c][f][1] # n
            /\ (\A n \in ChainNodes(target[c]) : SatEmpty(pre, n)) =>
                  /\ overflow[c] = InsertFilter(primaryKeys[c])
                  /\ inserted[c] = EmptyMap

C6_Witness ==
    /\ pc[SeqCaller] = "insertDone"
    /\ \A n \in ChainNodes(target[SeqCaller]) : SatEmpty(pre, n)
    /\ Len(primaryKeys[SeqCaller]) > Len(overflow[SeqCaller])
    /\ Len(overflow[SeqCaller]) > 0

\* C7: a fetch that has returned reports every pair (k, id) that an earlier
\* insert returned from a node of its chain, when its batch holds k: k is in
\* found with that id and not in notFound.
C7_ReturnedPairStaysFetchable ==
    \A c \in Callers :
        pc[c] = "fetchDone" =>
            \A r \in returned :
                (r[2][1] \in ChainNodes(target[c]) /\ StringKey(r[1]) \in Range(primaryKeys[c])) =>
                    /\ StringKey(r[1]) \in DOMAIN found[c]
                    /\ found[c][StringKey(r[1])] = r[2]
                    /\ StringKey(r[1]) \notin Range(notFound[c])

\* C8: an insert into an unchained node whose forward map and reclaim list were
\* empty and whose counter was 0, of k distinct valid keys, with k no more than
\* the integers the counter can grant, has bound the i-th key to the id of
\* integer i-1, reported that pair, and returned an empty overflow.
C8_FreshNodeNumbersInOrder ==
    \A c \in Callers :
        LET t == target[c]
            keys == primaryKeys[c]
        IN (/\ pc[c] = "insertDone"
            /\ existingDictionary[t] = 0
            /\ pre.hash[redisHashKey(t)] = EmptyMap /\ pre.list[redisRefurbishedListKey(t)] = <<>> /\ pre.counter[redisCounterKey(t)] = 0
            /\ InsertFilter(keys) = keys
            /\ Len(keys) <= MaxCounter(maxCapacity[t])) =>
               /\ overflow[c] = <<>>
               /\ \A i \in 1..Len(keys) :
                     /\ toString(keys[i]) \in DOMAIN inserted[c]
                     /\ inserted[c][toString(keys[i])] = UniqueId(t, i - 1)
                     /\ redisHash[redisHashKey(t)][toString(keys[i])] = UniqueId(t, i - 1)

\* C9: while a fetch runs and when it has returned, the forward map, counter
\* and reclaim list of every node are what they were when it started; and a
\* fetch that follows a fetch of the same node with the same batch, with no
\* insert in between, has returned the same found and notFound.
C9_FetchReadsOnly ==
    \A c \in Callers :
        /\ pc[c] \in {"hmget", "fetchDone"} => Store = pre
        /\ (/\ pc[c] = "fetchDone"
            /\ prevFetch.target = target[c]
            /\ prevFetch.primaryKeys = primaryKeys[c]) =>
               /\ found[c] = prevFetch.found
               /\ notFound[c] = prevFetch.notFound

C9_Witness ==
    /\ pc[SeqCaller] = "fetchDone"
    /\ prevFetch.target = target[SeqCaller]
    /\ prevFetch.primaryKeys = primaryKeys[SeqCaller]
    /\ found[SeqCaller] # EmptyMap
    /\ notFound[SeqCaller] # <<>>

\* the places in the chain of t whose forward map binds key k
BoundAt(t, k) == {i \in DOMAIN Chain(t) : toString(k) \in DOMAIN redisHash[redisHashKey(Chain(t)[i])]}

FirstOf(S) == CHOOSE i \in S : \A j \in S : i <= j

\* C10: a fetch that has returned has every valid key of its batch in found,
\* with the id stored in the oldest node of the chain that binds it, exactly
\* when some node of the chain binds the key, and in notFound exactly when none
\* does; no key is in both.
C10_FetchClassifies ==
    \A c \in Callers :
        pc[c] = "fetchDone" =>
            /\ \A k \in Range(primaryKeys[c]) :
                  IsValidKey(k) =>
                     /\ (k \in DOMAIN found[c]) <=> (BoundAt(target[c], k) # {})
                     /\ (k \in Range(notFound[c])) <=> (BoundAt(target[c], k) = {})
                     /\ (k \in DOMAIN found[c]) =>
                           found[c][k] = redisHash[redisHashKey(Chain(target[c])[FirstOf(BoundAt(target[c], k))])][toString(k)]
            /\ DOMAIN found[c] \cap Range(notFound[c]) = {}

C10_Witness ==
    /\ pc[SeqCaller] = "fetchDone"
    /\ Len(Chain(target[SeqCaller])) = 2
    /\ \E k1, k2 \in DOMAIN found[SeqCaller] :
          found[SeqCaller][k1][1] = 1 /\ found[SeqCaller][k2][1] = 2

\* the keys of a batch that the claim calls valid: not null, undefined, NaN or ''
ValidOf(keys) ==
    {k \in Range(keys) : k \notin {NullKey, UndefinedKey, NaNKey, StringKey("")}}

RECURSIVE SumCounters(_)
SumCounters(n) ==
    IF n = 0 THEN 0 ELSE redisCounter[redisCounterKey(n)] + SumCounters(n - 1)

RECURSIVE SumBound(_)
SumBound(n) ==
    IF n = 0 THEN 0 ELSE Cardinality(DOMAIN redisHash[redisHashKey(n)]) + SumBound(n - 1)

\* C11: one insert over an empty store. From its validation on, the keys still
\* to place are valid and pairwise different; a null, undefined, NaN or '' key
\* is never in overflow, in inserted or in a forward map; a batch with no valid
\* key returns without a session or a store access; and the integers reserved
\* and the bindings made never outnumber the distinct valid keys of the batch.
C11_InvalidAndRepeatedKeysDropped ==
    LET c == SeqCaller
        keys == primaryKeys[c]
        invalid == Range(keys) \ ValidOf(keys)
    IN pc[c] # "idle" =>
        /\ Range(overflow[c]) \subseteq ValidOf(keys)
        /\ \A i, j \in DOMAIN overflow[c] : overflow[c][i] = overflow[c][j] => i = j
        /\ \A k \in invalid :
              /\ toString(k) \notin DOMAIN inserted[c]
              /\ \A n \in 1..MaxNodes : toString(k) \notin DOMAIN redisHash[redisHashKey(n)]
        /\ ValidOf(keys) = {} =>
              pc[c] = "insertDone" /\ token[c] = NoToken /\ acquired = {} /\ Store = pre
        /\ SumCounters(MaxNodes) <= Cardinality(ValidOf(keys))
        /\ SumBound(MaxNodes) <= Cardinality(ValidOf(keys))
        /\ Cardinality(DOMAIN inserted[c]) <= Cardinality(ValidOf(keys))

C11_Witness ==
    LET c == SeqCaller
        keys == primaryKeys[c]
    IN /\ pc[c] = "insertDone"
       /\ Range(keys) \ ValidOf(keys) # {}
       /\ \E i, j \in DOMAIN keys : i # j /\ keys[i] = keys[j] /\ keys[i] \in ValidOf(keys)
       /\ inserted[c] # EmptyMap

\* C12: an insert of <<"A", "1">> on a child C chained to a root P, started when
\* P bound "A" and not "1" and C bound nothing, has returned "A" with the id P
\* held, has left P's binding, counter and reclaim list as they were, has taken
\* at most one integer of C, and has bound "1" in C and returned that id.
C12_ChildResolvesViaPredecessor ==
    \A c \in Callers :
        LET C == target[c]
            P == existingDictionary[C]
            A == toString(StringKey("A"))
            B == toString(StringKey("1"))
        IN (/\ pc[c] = "insertDone"
            /\ P # 0
            /\ existingDictionary[P] = 0
            /\ primaryKeys[c] = <<StringKey("A"), StringKey("1")>>
            /\ A \in DOMAIN pre.hash[redisHashKey(P)]
            /\ B \notin DOMAIN pre.hash[redisHashKey(P)]
            /\ pre.hash[redisHashKey(C)] = EmptyMap) =>
               /\ A \in DOMAIN inserted[c]
               /\ inserted[c][A] = pre.hash[redisHashKey(P)][A]
               /\ redisHash[redisHashKey(P)] = pre.hash[redisHashKey(P)]
               /\ redisCounter[redisCounterKey(P)] = pre.counter[redisCounterKey(P)]
               /\ redisRefurbishedList[redisRefurbishedListKey(P)] = pre.list[redisRefurbishedListKey(P)]
               /\ redisCounter[redisCounterKey(C)] <= pre.counter[redisCounterKey(C)] + 1
               /\ DOMAIN redisHash[redisHashKey(C)] = {B}
               /\ B \in DOMAIN inserted[c]
               /\ inserted[c][B] = redisHash[redisHashKey(C)][B]

\* the nodes reached from t through existingDictionary that bind key k
Binders(t, k) ==
    {n \in ChainNodes(t) : toString(k) \in DOMAIN redisHash[redisHashKey(n)]}

\* the node constructed first among S
Oldest(S) == CHOOSE n \in S : \A m \in S : n <= m

\* C13: a fetch on the head t of a chain that has returned has in found every
\* valid key of its batch that some node of the chain binds, with the id held by
\* the node constructed first among those that bind it; and a fetch made on a
\* node chained, directly or not, onto the target of the fetch before it, with
\* no insert in between, returns every key the earlier fetch found with the
\* same id.
C13_OldestBindingReachable ==
    \A c \in Callers :
        pc[c] = "fetchDone" =>
            /\ \A k \in Range(primaryKeys[c]) :
                  (IsValidKey(k) /\ Binders(target[c], k) # {}) =>
                      /\ k \in DOMAIN found[c]
                      /\ found[c][k] =
                            redisHash[redisHashKey(Oldest(Binders(target[c], k)))][toString(k)]
                      /\ found[c][k][1] = Oldest(Binders(target[c], k))
            /\ (prevFetch.target \in ChainNodes(target[c])) =>
                  \A k \in DOMAIN prevFetch.found \cap Range(primaryKeys[c]) :
                      k \in DOMAIN found[c] /\ found[c][k] = prevFetch.found[k]

C13_Witness ==
    \E k \in PrimaryKeys :
        /\ pc[SeqCaller] = "fetchDone"
        /\ k \in DOMAIN found[SeqCaller]
        /\ Cardinality(Binders(target[SeqCaller], k)) = 2

\* a fetch on a node chained onto the target of the fetch before it
C13_ChainedSinceLastFetch ==
    /\ pc[SeqCaller] = "fetchDone"
    /\ prevFetch.target \in ChainNodes(target[SeqCaller]) \ {target[SeqCaller]}
    /\ DOMAIN prevFetch.found \cap DOMAIN found[SeqCaller] # {}

\* C14: no token is released twice; a token whose acquire resolved is held
\* until its release and is the token of the running call; and when the caller
\* is at rest (the call returned or was rejected) no session is held and every
\* token acquired has been released exactly once.
C14_SessionReleasedOnce ==
    LET c == SeqCaller
    IN /\ \A tok \in DOMAIN releaseLog : releaseLog[tok] = 1
       /\ \A tok \in acquired : tok = token[c] /\ tok \in acquireLog /\ tok \notin DOMAIN releaseLog
       /\ \A tok \in acquireLog \ acquired : tok \in DOMAIN releaseLog
       /\ pc[c] \in AtRest => acquired = {}

\* a call rejected after its pipeline rejected, following a call that bound a key
C14_Witness ==
    /\ pc[SeqCaller] = "insertFailed"
    /\ "pipeline" \in rejected
    /\ Cardinality(acquireLog) = 2
    /\ Cardinality(DOMAIN releaseLog) = 2
    /\ \E n \in Nodes : redisHash[redisHashKey(n)] # EmptyMap

\* C15: a call that ended is rejected exactly when a store command of it
\* rejected, and then no session is held and each token it acquired has been
\* released; a call in which a command rejected never returns a response.
C15_RejectedIffStoreFailed ==
    LET c == SeqCaller
    IN /\ pc[c] \in {"insertFailed", "fetchFailed"} =>
             /\ rejected # {}
             /\ acquired = {}
             /\ \A tok \in acquireLog : tok \in DOMAIN releaseLog
       /\ pc[c] \in {"insertDone", "fetchDone"} => rejected = {}
       /\ rejected # {} =>
             pc[c] \in {"release", "fetchRelease", "insertFailed", "fetchFailed"}

\* a fetch rejected at its HMGET, after an insert that ran a counter to its
\* maximum returned a response
C15_Witness ==
    /\ pc[SeqCaller] = "fetchFailed"
    /\ rejected = {"hmget"}
    /\ \E n \in Nodes : redisCounter[redisCounterKey(n)] = MaxCounter(maxCapacity[n])

\* C16: with two unchained dictionaries, during and after a call on one of them
\* the forward map, counter and reclaim list of the other are what they were
\* when the call started; a fetch that returned has found exactly the keys the
\* called dictionary binds; and an insert that returned, made when the called
\* dictionary did not bind a key of the batch, had an empty reclaim list and had
\* integers left for the whole batch, reports that key with an id of the called
\* dictionary, whatever the other dictionary binds.
C16_UnchainedNodesIndependent ==
    \A c \in Callers : \A t, o \in 1..MaxNodes :
        (target[c] = t /\ o # t) =>
            /\ redisHash[redisHashKey(o)] = pre.hash[redisHashKey(o)]
            /\ redisCounter[redisCounterKey(o)] = pre.counter[redisCounterKey(o)]
            /\ redisRefurbishedList[redisRefurbishedListKey(o)] = pre.list[redisRefurbishedListKey(o)]
            /\ pc[c] = "fetchDone" =>
                  \A k \in Range(primaryKeys[c]) :
                      IsValidKey(k) =>
                          ((k \in DOMAIN found[c]) <=>
                               (toString(k) \in DOMAIN redisHash[redisHashKey(t)]))
            /\ (/\ pc[c] = "insertDone"
                /\ pre.list[redisRefurbishedListKey(t)] = <<>>
                /\ pre.counter[redisCounterKey(t)] + Len(InsertFilter(primaryKeys[c]))
                       <= MaxCounter(maxCapacity[t])) =>
                  \A k \in Range(primaryKeys[c]) :
                      (IsValidKey(k) /\ toString(k) \notin DOMAIN pre.hash[redisHashKey(t)]) =>
                          /\ toString(k) \in DOMAIN inserted[c]
                          /\ inserted[c][toString(k)][1] = t

\* a key that one dictionary already bound is reported as bound by the other
C16_Witness ==
    \E t, o \in 1..MaxNodes : \E k \in PrimaryKeys :
        /\ o # t
        /\ pc[SeqCaller] = "insertDone"
        /\ target[SeqCaller] = t
        /\ toString(k) \in DOMAIN pre.hash[redisHashKey(o)]
        /\ toString(k) \in DOMAIN inserted[SeqCaller]
        /\ redisHash[redisHashKey(t)][toString(k)] # redisHash[redisHashKey(o)][toString(k)]

\* C17: when the final fetch of the sharding caller has returned, every valid
\* key submitted is bound in exactly one shard and is in found, and notFound
\* is empty.
C17_SubmittedKeysInOneShard ==
    \A c \in Callers :
        pc[c] = "fetchDone" =>
            /\ notFound[c] = <<>>
            /\ \A k \in submitted :
                  IsValidKey(k) =>
                      /\ Cardinality(Binders(target[c], k)) = 1
                      /\ k \in DOMAIN found[c]

\* C18: every store key that a command of insert has written under is named
\* {identity}{separator}map, {identity}{separator}ctr or
\* {identity}{separator}refurbished for the identity of some dictionary.
C18_KeyNamesIdentityFirst ==
    /\ \A key \in DOMAIN redisHash :
          redisHash[key] # EmptyMap =>
              \E n \in 1..MaxNodes : key = identity(n) \o separatorCharacter \o "map"
    /\ \A key \in DOMAIN redisCounter :
          redisCounter[key] # 0 =>
              \E n \in 1..MaxNodes : key = identity(n) \o separatorCharacter \o "ctr"
    /\ \A key \in DOMAIN redisRefurbishedList :
          redisRefurbishedList[key] # <<>> =>
              \E n \in 1..MaxNodes : key = identity(n) \o separatorCharacter \o "refurbished"

\* C19: between an acquire that returns Acquired and the next release no other
\* acquire returns Acquired, and an acquire that returns Condition leaves the
\* lock word as it found it.
C19_MutualExclusion ==
    [][/\ holders' <= 1
       /\ \A t \in Threads :
             (spin[t] # "Condition" /\ spin'[t] = "Condition") =>
                 lock' = lock /\ holders' = holders]_vars

C19_Witness ==
    /\ holders = 1
    /\ \E t, u, v \in Threads :
          spin[t] = "Acquired" /\ spin[u] = "Condition" /\ spin[v] = "spinning"

\* C20: at most one execution of invocationFunction is in progress at any time.
C20_OneExecutionAtATime ==
    Cardinality({t \in Threads : invocation[t] = "executing"}) <= 1

\* C21: when callers only call invoke without an index, the k-th execution of
\* invocationFunction is started with the k-th arguments written to the queue;
\* no caller leaves through the exit condition, and one execution runs at a time.
C21_ExecutedInOrderAdded ==
    /\ Len(executed) <= Len(added)
    /\ \A k \in DOMAIN executed : executed[k] = added[k]
    /\ Len(executed) + Len(invocationQueue) = Len(added)
    /\ \A t \in Threads : invocation[t] # "condition" /\ state[t] # "error:queue-empty"
    /\ Cardinality({t \in Threads : invocation[t] = "executing"}) <= 1

\* an execution on arguments that another caller added, after an earlier one
C21_Witness ==
    \E t \in Threads :
        /\ invocation[t] = "executing"
        /\ Len(executed) = 3
        /\ executed[2] # executed[3]
        /\ invocationParams[t] # args[t]

\* the array `all` cut into consecutive pieces of `size` elements, the last one
\* possibly shorter
Cut(all, size) ==
    [i \in 1..((Len(all) + size - 1) \div size) |->
        SubSeq(all, (i - 1) * size + 1, Min(i * size, Len(all)))]

\* C22: one caller pushed n elements one at a time through window and then
\* called flush: the windows returned, in call order, are the elements in
\* insertion order cut into windows of windowSize, the accumulator is empty,
\* and a second flush returned [].
C22_WindowsInInsertionOrder ==
    /\ Len(flushes) >= 1 =>
          /\ collected = Cut(pushed, windowSize)
          /\ elements = <<>>
    /\ Len(flushes) >= 2 => flushes[2] = <<>>

\* five elements through a window of two, a last window of one, a second flush
C22_Witness ==
    /\ Len(flushes) = 2
    /\ Len(pushed) = MaxPushes
    /\ windowSize = 2
    /\ Len(collected) = 3
    /\ Len(flushes[1]) = 1

\* how often an element is in the arrays of all iterators
Given(element) ==
    Cardinality({at \in UNION {{<<k, i>> : i \in DOMAIN iterators[k]} : k \in DOMAIN iterators} :
                    iterators[at[1]][at[2]] = element})

\* the next() calls answered so far that gave an element or reported the end
Progress ==
    Cardinality(UNION {{<<k, i>> : i \in 1..cursors[k]} : k \in DOMAIN cursors})
        + Cardinality(endReachedIndexes)

Occurrences(seq, element) == Cardinality({i \in DOMAIN seq : seq[i] = element})

\* C23: over iterators whose numbers ascend, and with the frame function that
\* yields the first smallest number of the frame and purges what is no number,
\* the generator never throws, yields only numbers, in ascending order, none
\* more often than the iterators give it; while it runs some iterator is not
\* exhausted and every turn of its loop takes an element or sees an iterator
\* done, so that it ends; and when it has ended every iterator is exhausted and
\* every number of every iterator was yielded exactly as often as the
\* iterators give it.
C23_MergeYieldsAllAscending ==
    /\ [](/\ merge # "thrown"
          /\ \A i \in DOMAIN yielded : yielded[i].type = "number"
          /\ \A i, j \in DOMAIN yielded : i < j => yielded[i].value <= yielded[j].value
          /\ \A v \in Values : Occurrences(yielded, Number(v)) <= Given(Number(v))
          /\ merge = "running" => \E k \in DOMAIN iterators : (k - 1) \notin endReachedIndexes
          /\ merge = "done" =>
                /\ \A k \in DOMAIN iterators : cursors[k] = Len(iterators[k])
                /\ \A v \in Values : Occurrences(yielded, Number(v)) = Given(Number(v)))
    /\ [][merge = "running" => Progress' > Progress]_vars

RepliesZero(commands, hash, i) ==
    \/ commands[i][1] \in DOMAIN hash
    \/ \E j \in 1..(i - 1) : commands[j][1] = commands[i][1]

\* C25: when the write of a pending key replies 0, the response holds the key
\* neither in its inserted map nor in its overflow, the integer reserved for
\* the key is kept for the reclaim list, and the LPUSH that follows puts it on
\* the node's reclaim list while the session is still held.
C25_RejectedWriteReclaimed ==
    [][\A c \in Callers :
          /\ (pc[c] = "pipeline" /\ pc'[c] # "pipeline") =>
                \A i \in DOMAIN insertCommands'[c] :
                    RepliesZero(insertCommands'[c], redisHash[redisHashKey(cur[c])], i) =>
                        /\ toString(overflow[c][i]) \notin DOMAIN inserted'[c]
                        /\ overflow[c][i] \notin Range(overflow'[c])
                        /\ uniqueIds[c][i] \in Range(uniqueIds'[c])
                        /\ pc'[c] = "lpush"
          /\ (pc[c] = "lpush" /\ pc'[c] # "lpush") =>
                /\ pc'[c] = "release"
                /\ token[c] \in acquired'
                /\ \A id \in Range(uniqueIds[c]) :
                      id \in Range(redisRefurbishedList'[redisRefurbishedListKey(cur[c])])]_vars

\* C26: one caller. Once the LPOP of a node has run, the ids held are the
\* first integers of the reclaim list as it was when the call started, as many
\* as there are pending keys or all of them, the list has lost exactly these,
\* and the counter has not moved. Once the BITFIELD has run, the counter has
\* moved by the number of pending keys the pop left without an integer, or up
\* to its largest value, and the integers it passed follow the popped ones; it
\* has not moved at all when the list held an integer for every pending key.
C26_ReclaimedBeforeCounter ==
    LET c == SeqCaller
        n == cur[c]
        list == pre.list[redisRefurbishedListKey(n)]
        counter == pre.counter[redisCounterKey(n)]
        pending == Len(overflow[c])
        popped == SubSeq(list, 1, Min(pending, Len(list)))
        shortfall == pending - Len(popped)
        granted == Min(shortfall, MaxCounter(maxCapacity[n]) - counter)
    IN  /\ pc[c] \in {"bitfield", "pipeline"} =>
              /\ Len(uniqueIds[c]) >= Len(popped)
              /\ SubSeq(uniqueIds[c], 1, Len(popped)) = popped
              /\ redisRefurbishedList[redisRefurbishedListKey(n)] = SubSeq(list, Len(popped) + 1, Len(list))
        /\ pc[c] = "bitfield" =>
              /\ uniqueIds[c] = popped
              /\ redisCounter[redisCounterKey(n)] = counter
        /\ pc[c] = "pipeline" =>
              /\ redisCounter[redisCounterKey(n)] = counter + granted
              /\ uniqueIds[c] = popped \o [i \in 1..granted |-> counter + i - 1]
              /\ Len(list) >= pending =>
                    (redisCounter[redisCounterKey(n)] = counter /\ uniqueIds[c] = SubSeq(list, 1, pending))

\* a pending key got the integer at the head of the reclaim list, and the
\* counter, which could have granted one, stayed where it was
C26_Witness ==
    LET c == SeqCaller
        n == cur[c]
    IN  /\ pc[c] = "pipeline"
        /\ Len(overflow[c]) = 1
        /\ Len(pre.list[redisRefurbishedListKey(n)]) >= 1
        /\ uniqueIds[c] = <<pre.list[redisRefurbishedListKey(n)][1]>>
        /\ redisCounter[redisCounterKey(n)] = pre.counter[redisCounterKey(n)]
        /\ redisCounter[redisCounterKey(n)] < MaxCounter(maxCapacity[n])

\* C27: a BITFIELD that is asked for more integers than the counter has left
\* below its largest value grants exactly those left, in order, after the
\* popped ones; the pipeline pairs the integers held with the first pending
\* keys, one command each, and leaves the other keys, in order, in overflow,
\* so that commands and overflow together are the keys that were pending.
C27_SaturatedGrantSplitsKeys ==
    [][\A c \in Callers :
          LET n == cur[c]
              counter == redisCounter[redisCounterKey(n)]
              pending == Len(overflow[c])
              s == pending - Len(uniqueIds[c])
              r == MaxCounter(maxCapacity[n]) - counter
          IN  /\ (pc[c] = "bitfield" /\ pc'[c] # "bitfield" /\ r < s) =>
                    /\ redisCounter'[redisCounterKey(n)] = MaxCounter(maxCapacity[n])
                    /\ uniqueIds'[c] = uniqueIds[c] \o [i \in 1..r |-> counter + i - 1]
              /\ (pc[c] = "pipeline" /\ pc'[c] # "pipeline") =>
                    /\ Len(insertCommands'[c]) = Min(Len(uniqueIds[c]), pending)
                    /\ \A i \in DOMAIN insertCommands'[c] :
                          insertCommands'[c][i] = <<toString(overflow[c][i]), UniqueId(n, uniqueIds[c][i])>>
                    /\ overflow'[c] = SubSeq(overflow[c], Len(insertCommands'[c]) + 1, pending)
                    /\ Len(insertCommands'[c]) + Len(overflow'[c]) = pending]_vars

\* a call that needed two fresh integers where the counter had one left: one
\* key was written with the last integer and the other key is in overflow
C27_Witness ==
    LET c == SeqCaller
        n == cur[c]
    IN  /\ pc[c] = "release"
        /\ pre.list[redisRefurbishedListKey(n)] = <<>>
        /\ pre.counter[redisCounterKey(n)] = MaxCounter(maxCapacity[n]) - 1
        /\ redisCounter[redisCounterKey(n)] = MaxCounter(maxCapacity[n])
        /\ Len(insertCommands[c]) = 1
        /\ insertCommands[c][1][2] = UniqueId(n, MaxCounter(maxCapacity[n]) - 1)
        /\ Len(overflow[c]) = 1

\* C28: with callers that interleave, the counter of every node stays at or
\* below the largest value of the node's width, and no step lowers it.
C28_CounterMonotoneBounded ==
    /\ [](\A n \in Nodes : redisCounter[redisCounterKey(n)] <= MaxCounter(maxCapacity[n]))
    /\ [][\A n \in 1..MaxNodes :
             redisCounter'[redisCounterKey(n)] >= redisCounter[redisCounterKey(n)]]_vars

\* two callers are inside insert on the same node, whose 2-bit counter has
\* reached its largest value, and one of them was left with a key in overflow
C28_Witness ==
    \E n \in Nodes :
        /\ maxCapacity[n] = MaxBits
        /\ redisCounter[redisCounterKey(n)] = MaxCounter(MaxBits)
        /\ \A c \in Callers : cur[c] = n /\ pc[c] \in {"pipeline", "lpush", "release"}
        /\ \E c \in Callers : pc[c] = "release" /\ overflow[c] # <<>>

\* C29: from the validation of a fetchUniqueIds call on, the keys it still
\* has to look up, which are the fields of its HMGET and end as notFound, hold
\* no null, undefined, NaN or '' key and no key twice.
C29_FetchKeysValidAndDistinct ==
    \A c \in Callers :
        /\ \A i \in DOMAIN notFound[c] : IsValidKey(notFound[c][i])
        /\ \A i, j \in DOMAIN notFound[c] : notFound[c][i] = notFound[c][j] => i = j

\* the positions of a call at which its next step is a store command
AtStore == {"lpop", "bitfield", "pipeline", "lpush", "hmget"}

\* the part of the store that belongs to node m
StoreOf(m) == <<redisHash[redisHashKey(m)], redisCounter[redisCounterKey(m)],
                redisRefurbishedList[redisRefurbishedListKey(m)]>>

\* C30: a call starts on the dictionary of its chain that has no predecessor.
\* Each of its store commands runs in the session of the dictionary whose code
\* is running, the only session the call holds, and touches the store of that
\* dictionary only. The call moves to another dictionary only when it releases
\* that session, and then to the dictionary chained onto the one it leaves,
\* with the overflow (insert) or notFound (fetch) it leaves unchanged and not
\* empty; the commands of a dictionary name only keys of that array.
C30_OlderNodeFirst ==
    [][\A c \in Callers :
          LET n == cur[c]
          IN  /\ (pc[c] \in AtRest /\ pc'[c] \notin AtRest) => existingDictionary[cur'[c]] = 0
              /\ (pc[c] \in AtStore /\ pc'[c] # pc[c]) =>
                    /\ token[c] \in acquired
                    /\ token[c][1] = identity(n)
                    /\ cur'[c] = n
                    /\ \A m \in 1..MaxNodes : m # n => StoreOf(m)' = StoreOf(m)
              /\ (pc[c] \notin AtRest /\ cur'[c] # n) =>
                    /\ pc[c] \in {"release", "fetchRelease"}
                    /\ token[c] \in acquired /\ token[c] \notin acquired'
                    /\ existingDictionary[cur'[c]] = n
                    /\ overflow'[c] = overflow[c] /\ notFound'[c] = notFound[c]
                    /\ pc[c] = "release" => (pc'[c] = "acquire" /\ overflow[c] # <<>>)
                    /\ pc[c] = "fetchRelease" => (pc'[c] = "fetchAcquire" /\ notFound[c] # <<>>)
              /\ (pc[c] = "release" /\ pc'[c] = "acquire") => existingDictionary[cur'[c]] = n
              /\ (pc[c] = "fetchRelease" /\ pc'[c] = "fetchAcquire") => existingDictionary[cur'[c]] = n
              /\ (pc[c] = "pipeline" /\ pc'[c] # "pipeline") =>
                    \A i \in DOMAIN insertCommands'[c] : insertCommands'[c][i][1] \in FieldsOf(overflow[c])
              /\ (pc[c] = "hmget" /\ pc'[c] # "hmget") =>
                    /\ Range(notFound'[c]) \subseteq Range(notFound[c])
                    /\ (DOMAIN found'[c]) \ (DOMAIN found[c]) \subseteq Range(notFound[c])]_vars

\* an insert on a dictionary chained onto another is about to write, in the
\* session of the newer dictionary, a key that the older one, now saturated,
\* returned as overflow after it had bound another key of the batch
C30_Witness ==
    \E c \in Callers :
        /\ pc[c] = "pipeline"
        /\ existingDictionary[cur[c]] # 0
        /\ target[c] = cur[c]
        /\ acquired = {token[c]}
        /\ token[c][1] = identity(cur[c])
        /\ inserted[c] # EmptyMap
        /\ Len(overflow[c]) = 1
        /\ overflow[c][1] \in Range(primaryKeys[c])

\* the part of the store that belonged to node m when the running call started
PreStoreOf(m) == <<pre.hash[redisHashKey(m)], pre.counter[redisCounterKey(m)],
                   pre.list[redisRefurbishedListKey(m)]>>

\* the dictionaries of the chain of t that come after n
After(t, n) ==
    LET ch == Chain(t)
    IN  {ch[j] : j \in {k \in DOMAIN ch : \E i \in 1..(k - 1) : ch[i] = n}}

\* C31: one caller. A call generates a token and acquires a session only with
\* a key left to process. A call whose batch holds no valid key has returned
\* with no token, no session and the whole store as it was; a call that ended
\* on a dictionary before its target, because that dictionary left no key
\* over, has returned with the forward map, counter and reclaim list of every
\* later dictionary of the chain as they were when the call started.
C31_NothingLeftNoStoreAccess ==
    /\ [](LET c == SeqCaller
          IN  /\ pc[c] \in {"insertDone", "fetchDone"} =>
                    /\ token[c] = NoToken
                    /\ acquired = {}
                    /\ \A m \in After(target[c], cur[c]) : StoreOf(m) = PreStoreOf(m)
                    /\ cur[c] # target[c] => (overflow[c] = <<>> /\ notFound[c] = <<>>)
              /\ (pc[c] = "insertDone" /\ InsertFilter(primaryKeys[c]) = <<>>) => Store = pre
              /\ (pc[c] = "fetchDone" /\ FetchFilter(primaryKeys[c]) = <<>>) => Store = pre)
    /\ [][\A c \in Callers :
             /\ (pc'[c] = "acquire" /\ pc[c] # "acquire") =>
                   (overflow'[c] # <<>> /\ token'[c] # NoToken)
             /\ (pc'[c] = "fetchAcquire" /\ pc[c] # "fetchAcquire") =>
                   (notFound'[c] # <<>> /\ token'[c] # NoToken)
             /\ (pc'[c] \in {"insertDone", "fetchDone"} /\ pc[c] \in AtRest) =>
                   (token'[c] = NoToken /\ acquired' = acquired /\ Store' = Store)]_vars

\* an insert on a dictionary chained onto another has returned from the older
\* one, which bound every key of the batch, and the newer one was never entered
C31_Witness ==
    LET c == SeqCaller
    IN  /\ pc[c] = "insertDone"
        /\ existingDictionary[target[c]] = cur[c]
        /\ Len(InsertFilter(primaryKeys[c])) = 2
        /\ Cardinality(DOMAIN inserted[c]) = 2
        /\ overflow[c] = <<>>
        /\ StoreOf(cur[c]) # PreStoreOf(cur[c])
        /\ StoreOf(target[c]) = PreStoreOf(target[c])

\* the commands of an insert call of caller c on the dictionary it runs: each
\* step is the next command of the list acquire, LPOP, BITFIELD, pipeline,
\* LPUSH, release, in the one session of the call's token
InsertCommandOrder(c) ==
    LET n == cur[c]
        list == redisRefurbishedList[redisRefurbishedListKey(n)]
        counter == redisCounter[redisCounterKey(n)]
        pending == Len(overflow[c])
        inSession == token[c] \in acquired /\ token'[c] = token[c] /\ acquired' = acquired
    IN  /\ (pc[c] = "acquire" /\ pc'[c] # "acquire") =>
              /\ pc'[c] = "lpop"
              /\ token[c] \notin acquired /\ acquired' = acquired \cup {token[c]}
              /\ Store' = Store
        /\ (pc[c] = "lpop" /\ pc'[c] # "lpop") =>
              /\ pc'[c] = "bitfield"
              /\ inSession
              /\ uniqueIds'[c] = SubSeq(list, 1, Min(pending, Len(list)))
              /\ redisRefurbishedList'[redisRefurbishedListKey(n)] =
                    SubSeq(list, Min(pending, Len(list)) + 1, Len(list))
              /\ redisHash' = redisHash /\ redisCounter' = redisCounter
        /\ (pc[c] = "bitfield" /\ pc'[c] # "bitfield") =>
              /\ pc'[c] = "pipeline"
              /\ inSession
              /\ redisCounter'[redisCounterKey(n)] =
                    Min(counter + (pending - Len(uniqueIds[c])), MaxCounter(maxCapacity[n]))
              /\ redisHash' = redisHash /\ redisRefurbishedList' = redisRefurbishedList
        /\ (pc[c] = "pipeline" /\ pc'[c] # "pipeline") =>
              /\ pc'[c] = (IF uniqueIds'[c] # <<>> THEN "lpush" ELSE "release")
              /\ inSession
              /\ Len(insertCommands'[c]) = Min(Len(uniqueIds[c]), pending)
              /\ \A i \in DOMAIN insertCommands'[c] :
                    /\ insertCommands'[c][i] = <<toString(overflow[c][i]), UniqueId(n, uniqueIds[c][i])>>
                    /\ redisHash'[redisHashKey(n)][insertCommands'[c][i][1]] \in
                          {insertCommands'[c][j][2] : j \in i..Len(insertCommands'[c])}
              /\ redisCounter' = redisCounter /\ redisRefurbishedList' = redisRefurbishedList
        /\ (pc[c] = "lpush" /\ pc'[c] # "lpush") =>
              /\ pc'[c] = "release"
              /\ inSession
              /\ uniqueIds[c] # <<>>
              /\ redisRefurbishedList'[redisRefurbishedListKey(n)] = Reverse(uniqueIds[c]) \o list
              /\ redisHash' = redisHash /\ redisCounter' = redisCounter
        /\ (pc[c] = "release" /\ pc'[c] # "release") =>
              /\ token[c] \in acquired /\ acquired' = acquired \ {token[c]}
              /\ Store' = Store

C33_IdsOfOwnCounter ==
    \A n \in Nodes : \A f \in DOMAIN redisHash[redisHashKey(n)] :
        LET id == redisHash[redisHashKey(n)][f]
        IN  /\ id = UniqueId(n, id[2])
            /\ 0 <= id[2]
            /\ id[2] < redisCounter[redisCounterKey(n)]
            /\ redisCounter[redisCounterKey(n)] <= MaxCounter(maxCapacity[n])

\* a dictionary with a counter of two bits has bound a key to the last integer
\* of its counter, and the dictionary chained onto it has bound a key to its
\* own integer 0
C33_Witness ==
    \E n \in Nodes :
        /\ existingDictionary[n] # 0
        /\ maxCapacity[existingDictionary[n]] = MaxBits
        /\ redisCounter[redisCounterKey(existingDictionary[n])] = MaxCounter(MaxBits)
        /\ \E f \in DOMAIN redisHash[redisHashKey(existingDictionary[n])] :
              redisHash[redisHashKey(existingDictionary[n])][f] =
                  UniqueId(existingDictionary[n], MaxCounter(MaxBits) - 1)
        /\ \E g \in DOMAIN redisHash[redisHashKey(n)] :
              redisHash[redisHashKey(n)][g] = UniqueId(n, 0)

\* C34: when the finally block of an insert call releases the session, normally
\* or after a store command rejected, every integer the call still holds in
\* uniqueIds (taken from the reclaim list or the counter and not yet written)
\* is bound in the forward map of the node or is in its reclaim list.
C34_NoReservedIntegerLost ==
    [][\A c \in Callers :
          (pc[c] = "release" /\ pc'[c] # "release") =>
              \A i \in 1..Len(uniqueIds[c]) :
                  \/ UniqueId(cur[c], uniqueIds[c][i]) \in
                         {redisHash'[redisHashKey(cur[c])][f] :
                             f \in DOMAIN redisHash'[redisHashKey(cur[c])]}
                  \/ uniqueIds[c][i] \in
                         Range(redisRefurbishedList'[redisRefurbishedListKey(cur[c])])]_vars

\* C35: while no call is in progress, every integer below the counter of a
\* node is the integer of exactly one binding of the node's forward map or is
\* exactly once in the node's reclaim list, and not both.
C35_IntegerBoundOrReclaimedOnce ==
    (\A c \in Callers : pc[c] \in AtRest) =>
        \A n \in Nodes : \A i \in 0..(redisCounter[redisCounterKey(n)] - 1) :
            Cardinality({f \in DOMAIN redisHash[redisHashKey(n)] :
                            redisHash[redisHashKey(n)][f] = UniqueId(n, i)})
              + Occurrences(redisRefurbishedList[redisRefurbishedListKey(n)], i) = 1

\* C36: in every state of the sharding protocol, no field is bound in the
\* forward maps of two nodes of the chain.
C36_KeyBoundInOneNode ==
    \A n, m \in Nodes :
        n # m => DOMAIN redisHash[redisHashKey(n)] \cap DOMAIN redisHash[redisHashKey(m)] = {}

\* C37: an invoke call that has returned with state "success" ran
\* invocationFunction on the arguments passed to that call: the arguments it
\* shifted off the queue are its own.
C37_SuccessCarriesOwnArgs ==
    \A t \in Threads :
        (invocation[t] = "returned" /\ state[t] = "success") =>
            invocationParams[t] = args[t]

\* the windows of `result` have windowSize elements each, but for the last one
\* when `lastShorter` allows it to have fewer (and at least one)
WindowsFull(result, lastShorter) ==
    \A i \in DOMAIN result :
        \/ Len(result[i]) = windowSize
        \/ lastShorter /\ i = Len(result) /\ Len(result[i]) \in 1..windowSize

\* C38: among concurrent callers, a window call that ends gives undefined or
\* windows of exactly windowSize elements each, and so does every result
\* gathered by a call in progress; a call whose add reports a length that is
\* no multiple of windowSize returns undefined, to its caller or to the call
\* that made it, without draining; and in the result of a flush every window
\* but the last has windowSize elements, the last one between 1 and windowSize.
C38_WindowsOfWindowSize ==
    [][\A t \in Threads :
          /\ (frames'[t] # frames[t] /\ frames'[t] = <<>> /\ windows'[t].defined) =>
                 WindowsFull(windows'[t].windows, FALSE)
          /\ \A k \in DOMAIN frames'[t] : WindowsFull(frames'[t][k].result, FALSE)
          /\ (/\ frames[t] # <<>>
              /\ frames'[t] # frames[t]
              /\ frames[t][Len(frames[t])].at = "add"
              /\ (Len(elements) + 1) % windowSize # 0) =>
                 /\ ~(/\ Len(frames'[t]) >= Len(frames[t])
                      /\ frames'[t][Len(frames[t])].at = "drain")
                 /\ Len(frames[t]) = 1 => (frames'[t] = <<>> /\ windows'[t] = undefined)
          /\ (Len(flushes') > Len(flushes) /\ windows'[t] # windows[t]) =>
                 /\ windows'[t].defined
                 /\ windows'[t].windows = flushes'[Len(flushes')]
                 /\ WindowsFull(windows'[t].windows, TRUE)]_vars

\* a call drained a number of elements that is no multiple of windowSize and
\* waits in its while loop for the inner call that gives one back; another call
\* of window has returned a window; a flush has returned a shorter last window
C38_Witness ==
    /\ windowSize > 1
    /\ \E t \in Threads :
          /\ Len(frames[t]) = 2
          /\ frames[t][1].at = "inner"
          /\ frames[t][2].at = "add"
    /\ \E u \in Threads :
          /\ frames[u] = <<>>
          /\ windows[u].defined
          /\ windows[u].windows # <<>>
          /\ \A f \in DOMAIN flushes : flushes[f] # windows[u].windows
    /\ \E f \in DOMAIN flushes :
          flushes[f] # <<>> /\ Len(flushes[f][Len(flushes[f])]) < windowSize

\* how often element e is in the windows of `result`
InWindows(result, e) ==
    Cardinality({p \in UNION {{<<i, j>> : j \in DOMAIN result[i]} : i \in DOMAIN result} :
                    result[p[1]][p[2]] = e})

\* how often element e is held by the calls in progress of thread t: passed to
\* a call that has not added it yet, drained and not yet sliced, or in windows
\* gathered from inner calls
InFrames(t, e) ==
    Cardinality({k \in DOMAIN frames[t] : frames[t][k].at = "add" /\ frames[t][k].element = e})
      + Cardinality(UNION {{<<k, i>> : i \in {j \in DOMAIN frames[t][k].allElements :
                                                 frames[t][k].allElements[j] = e}} :
                            k \in DOMAIN frames[t]})
      + Cardinality(UNION {{<<k, p>> : p \in {q \in UNION {{<<i, j>> : j \in DOMAIN frames[t][k].result[i]} :
                                                              i \in DOMAIN frames[t][k].result} :
                                                 frames[t][k].result[q[1]][q[2]] = e}} :
                            k \in DOMAIN frames[t]})

RECURSIVE InAllFrames(_, _)
InAllFrames(t, e) ==
    IF t = 0 THEN 0 ELSE InFrames(t, e) + InAllFrames(t - 1, e)

\* C39: among concurrent callers of window and flush, every element passed to
\* window is, in every state, in exactly one place and there once: in a window
\* of a result that a call has returned, in the accumulator, or held by a call
\* in progress; so when all calls have finished it is in exactly one returned
\* window or still in the accumulator.
C39_EveryElementOnce ==
    \A e \in 1..Len(pushed) :
        /\ InWindows(collected, e) + Occurrences(elements, e) + InAllFrames(NumThreads, e) = 1
        /\ (\A t \in Threads : frames[t] = <<>>) =>
               InWindows(collected, e) + Occurrences(elements, e) = 1

\* all calls have finished: every element was passed, a call of window and both
\* flushes have returned windows, one of them with its elements out of the
\* order they were passed in, and the accumulator still holds an element
C39_Witness ==
    /\ windowSize > 1
    /\ Len(pushed) = SharedPushes
    /\ Len(flushes) = MaxFlushes
    /\ \A t \in Threads : frames[t] = <<>>
    /\ elements # <<>>
    /\ \E k \in DOMAIN collected :
          /\ \A f \in DOMAIN flushes : \A i \in DOMAIN flushes[f] : flushes[f][i] # collected[k]
          /\ \E j \in 1..(Len(collected[k]) - 1) : collected[k][j] > collected[k][j + 1]
    /\ \E f \in DOMAIN flushes : flushes[f] # <<>>

====
